---- MODULE Spec2Model ----
(***************************************************************************)
(* Model of the k8s-controller-sample command line tool: the HTTP query    *)
(* surface (cmd/server.go), the one-shot status report of the controller   *)
(* command (cmd/controller.go), the reconciler of the manager command      *)
(* (cmd/manager.go) and the zerolog wrapper (pkg/logger).                   *)
(*                                                                         *)
(* Go values are modelled structurally:                                    *)
(*   - a string that is parsed is a sequence of one-character strings;     *)
(*   - a slice is [isNil, items], so that a nil slice and an empty one     *)
(*     are different values, as they are for encoding/json;                *)
(*   - a *int32 is either NilPtr or the number it points to;               *)
(*   - an error is a string, NilErr standing for the nil error;            *)
(*   - a zerolog context or event is the sequence of <<key, value>> pairs  *)
(*     appended to its buffer, duplicates included.                        *)
(***************************************************************************)
EXTENDS Integers, Sequences, FiniteSets, TLC

(***************************************************************************)
(* Bounds of the model.                                                    *)
(***************************************************************************)
MaxDeployments == 2
MaxEvents == 2
MaxPods == 2
MaxServices == 1
MaxLimitLen == 2

(***************************************************************************)
(* Generic helpers.                                                        *)
(***************************************************************************)
RECURSIVE SeqsUpTo(_, _)
SeqsUpTo(S, n) ==
    IF n = 0 THEN {<<>>}
    ELSE LET shorter == SeqsUpTo(S, n - 1)
         IN  shorter \cup {Append(s, x) : s \in {t \in shorter : Len(t) = n - 1}, x \in S}

Range(s) == {s[i] : i \in DOMAIN s}

RECURSIVE SumOver(_, _)
SumOver(f, D) ==
    IF D = {} THEN 0
    ELSE LET x == CHOOSE y \in D : TRUE IN f[x] + SumOver(f, D \ {x})

(***************************************************************************)
(* Go values.                                                              *)
(***************************************************************************)
NilPtr == [isNil |-> TRUE, v |-> 0]
Ptr(n) == [isNil |-> FALSE, v |-> n]
NilErr == "<nil>"
NilSlice == [isNil |-> TRUE, items |-> <<>>]
GoAppend(s, x) == [isNil |-> FALSE, items |-> Append(s.items, x)]
GoLen(s) == Len(s.items)
NilInterface == [kind |-> "nil"]
GoMap(m) == [kind |-> "map", m |-> m]

(***************************************************************************)
(* encoding/json.                                                          *)
(***************************************************************************)
JsonNull == [kind |-> "null"]
JsonArray(items) == [kind |-> "array", items |-> items]

\* A nil slice marshals as null, a non-nil one (empty or not) as an array.
MarshalSlice(s) == IF s.isNil THEN JsonNull ELSE JsonArray(s.items)

\* Response{Success, Data omitempty, Error omitempty, Message omitempty}.
ResponseKeys(r) ==
    {"success"}
        \cup (IF r.Data # NilInterface THEN {"data"} ELSE {})
        \cup (IF r.Error # "" THEN {"error"} ELSE {})
        \cup (IF r.Message # "" THEN {"message"} ELSE {})

MarshalResponse(r) ==
    [k \in ResponseKeys(r) |->
        CASE k = "success" -> r.Success
          [] k = "data" -> r.Data.m
          [] k = "error" -> r.Error
          [] k = "message" -> r.Message]

(***************************************************************************)
(* strconv.Atoi on a 64-bit build.                                         *)
(***************************************************************************)
Digits == {"0", "1", "2", "3", "4", "5", "6", "7", "8", "9"}
DigitVal(c) ==
    CASE c = "0" -> 0 [] c = "1" -> 1 [] c = "2" -> 2 [] c = "3" -> 3
      [] c = "4" -> 4 [] c = "5" -> 5 [] c = "6" -> 6 [] c = "7" -> 7
      [] c = "8" -> 8 [] c = "9" -> 9

RECURSIVE ParseDigits(_, _)
\* The value of the digit string s read left to right after the prefix n.
ParseDigits(s, n) ==
    IF s = <<>> THEN n ELSE ParseDigits(Tail(s), n * 10 + DigitVal(Head(s)))

\* [ok, n]: ok is FALSE for a syntax error.  A range error needs a string of
\* at least 19 digits, which is longer than any string within MaxLimitLen.
Atoi(s) ==
    LET signed == s # <<>> /\ Head(s) \in {"-", "+"}
        body == IF signed THEN Tail(s) ELSE s
    IN  IF body = <<>> \/ \E i \in DOMAIN body : body[i] \notin Digits
        THEN [ok |-> FALSE, n |-> 0]
        ELSE LET mag == ParseDigits(body, 0)
             IN  [ok |-> TRUE, n |-> IF Head(s) = "-" THEN 0 - mag ELSE mag]

(***************************************************************************)
(* pkg/logger: the zerolog wrapper.                                        *)
(***************************************************************************)
DebugLevel == 0
InfoLevel == 1
WarnLevel == 2
ErrorLevel == 3
FatalLevel == 4

LevelName(lv) ==
    CASE lv = DebugLevel -> "debug" [] lv = InfoLevel -> "info"
      [] lv = WarnLevel -> "warn" [] lv = ErrorLevel -> "error"
      [] lv = FatalLevel -> "fatal"

\* New(): the value of ENV with the empty value replaced by "dev".
ResolveEnv(e) == IF e = "" THEN "dev" ELSE e

\* New(): the level of the switch that only "prod" selects.
LevelForEnvProdOnly(e) ==
    IF ResolveEnv(e) = "prod" THEN InfoLevel ELSE DebugLevel

\* New(): the level handed to zerolog.SetGlobalLevel.
LevelForEnv(e) ==
    IF ResolveEnv(e) \in {"prod", "production"} THEN InfoLevel ELSE DebugLevel

\* zerolog.ConsoleWriter{TimeFormat, FormatLevel}: FormatLevel is "glyph" for
\* the function New() passes in the default branch and "default" when the
\* field is left unset.
ConsoleWriter(timeFormat, formatLevel) ==
    [kind |-> "console", timeFormat |-> timeFormat, formatLevel |-> formatLevel]

\* New(): the writer handed to log.Output, by the branch of the switch.
WriterForEnv(e) ==
    IF ResolveEnv(e) \in {"prod", "production"}
    THEN ConsoleWriter("RFC3339", "default")
    ELSE ConsoleWriter("15:04:05", "glyph")

\* The level as the writer prints it: the glyph New() maps the level to, or
\* the three-letter form ConsoleWriter prints when it has no FormatLevel.
FormatLevel(w, lv) ==
    IF w.formatLevel = "glyph"
    THEN CASE lv = DebugLevel -> "glyph-magnifier" [] lv = InfoLevel -> "glyph-information"
           [] lv = WarnLevel -> "glyph-warning" [] lv = ErrorLevel -> "glyph-cross"
           [] lv = FatalLevel -> "glyph-skull"
    ELSE CASE lv = DebugLevel -> "DBG" [] lv = InfoLevel -> "INF"
           [] lv = WarnLevel -> "WRN" [] lv = ErrorLevel -> "ERR"
           [] lv = FatalLevel -> "FTL"

\* New(): the logger with the two default fields in its context, writing to
\* the writer New() installed.
NewLogger(e) ==
    [context |-> << <<"service", "k8s-controller">>,
                    <<"environment", ResolveEnv(e)>> >>,
     w |-> WriterForEnv(e)]

\* With().Str(key, value) that writes the pair in front of the context.
WithStrPrepend(l, key, value) == [l EXCEPT !.context = << <<key, value>> >> \o @]

\* l.logger.With().Str(key, value).Logger(): a new logger whose context is
\* the receiver's context with one more pair appended; the receiver's own
\* context is a copy and is not written.
WithStr(l, key, value) == [l EXCEPT !.context = Append(@, <<key, value>>)]
WithNamespace(l, ns) == WithStr(l, "namespace", ns)
WithDeployment(l, name) == WithStr(l, "deployment", name)

\* The event with the call-site fields written before the logger's context.
EventBufFieldsFirst(l, err, fields) ==
    fields \o (IF err # NilErr THEN << <<"error", err>> >> ELSE <<>>) \o l.context

\* The buffer of an event: the logger's context, then the error of the
\* Error and Fatal variants when it is not nil, then the call-site fields
\* in the order the range over the map visits them.
EventBuf(l, err, fields) ==
    l.context \o (IF err # NilErr THEN << <<"error", err>> >> ELSE <<>>) \o fields

BufKeys(buf) == {buf[i][1] : i \in DOMAIN buf}

LastIndexOf(buf, k) ==
    CHOOSE i \in DOMAIN buf :
        /\ buf[i][1] = k
        /\ \A j \in DOMAIN buf : buf[j][1] = k => j <= i

\* The writer given the raw event: every pair of the buffer is printed.
RawFields(buf) == Range(buf)

\* zerolog.ConsoleWriter decodes the event into a map before printing it, so
\* of two pairs with the same key the later one is kept; the fields of the
\* printed line are the pairs of that map.
DecodeFields(buf) == {<<k, buf[LastIndexOf(buf, k)][2]>> : k \in BufKeys(buf)}

\* One log call: nothing below the global level, else one record rendered
\* by the logger's writer.
Emit(l, glevel, lv, msg, err, fields) ==
    IF lv < glevel THEN <<>>
    ELSE << [level |-> LevelName(lv), message |-> msg,
             fields |-> DecodeFields(EventBuf(l, err, fields)),
             format |-> l.w.kind, timeFormat |-> l.w.timeFormat,
             levelText |-> FormatLevel(l.w, lv)] >>

\* Fatal whose event does not end the process.
FatalReturns(l, glevel, msg, err, fields) ==
    [out |-> Emit(l, glevel, FatalLevel, msg, err, fields), exit |-> FALSE]

\* Logger.Fatal: the record, and the os.Exit(1) zerolog runs once the fatal
\* event has been written.
Fatal(l, glevel, msg, err, fields) ==
    [out |-> Emit(l, glevel, FatalLevel, msg, err, fields), exit |-> TRUE]

(***************************************************************************)
(* The cluster objects a call can return, within the bounds.               *)
(***************************************************************************)
DeploymentNames == <<"web", "api", "db", "cache">>
ReplicaCounts == {0, 1}
ReplicaPtrs == {NilPtr} \cup {Ptr(n) : n \in ReplicaCounts}

\* Deployment number i of a listing of namespace ns: Spec.Replicas is a
\* pointer, Status.ReadyReplicas a number.
DeploymentObject(ns, i, ready, replicas) ==
    [name |-> DeploymentNames[i], namespace |-> ns, replicas |-> replicas,
     ready |-> ready, available |-> ready, updated |-> ready]

DeploymentLists(ns) ==
    UNION {{[i \in 1 .. n |-> DeploymentObject(ns, i, st[i][1], st[i][2])] :
                st \in [1 .. n -> ReplicaCounts \X ReplicaPtrs]} :
           n \in 0 .. MaxDeployments}

EventTypes == {"Normal", "Warning"}
EventObject(i, type) ==
    [type |-> type, reason |-> "Reason", message |-> "event message",
     lastTimestamp |-> i, involved |-> DeploymentNames[1]]
EventLists ==
    UNION {{[i \in 1 .. n |-> EventObject(i, ty[i])] : ty \in [1 .. n -> EventTypes]} :
           n \in 0 .. MaxEvents}

PodPhases == {"Running", "Pending"}
PodLists == SeqsUpTo(PodPhases, MaxPods)
ServiceLists == {[i \in 1 .. n |-> i] : n \in 0 .. MaxServices}

ListErrors == {"connection refused"}
ErrOrNil == {NilErr} \cup ListErrors

\* What the API server answers to a list call with ListOptions.Limit = limit
\* when the namespace holds the objects avail: all of them for limit 0, else
\* the first limit of them.
RECURSIVE Take(_, _)
Take(s, n) == IF n <= 0 \/ s = <<>> THEN <<>> ELSE <<Head(s)>> \o Take(Tail(s), n - 1)
ServeList(avail, limit) == IF limit > 0 THEN Take(avail, limit) ELSE avail

\* One call against the cluster as the program sees it: what was asked and
\* what came back.
ListCall(resource, ns, limit, err, avail) ==
    [verb |-> "list", resource |-> resource, namespace |-> ns, limit |-> limit,
     err |-> err,
     items |-> IF err = NilErr THEN ServeList(avail, limit) ELSE <<>>,
     more |-> err = NilErr /\ Len(ServeList(avail, limit)) < Len(avail)]

(***************************************************************************)
(* cmd/server.go: the HTTP query surface.                                  *)
(***************************************************************************)
StatusOK == 200
StatusNotFound == 404
StatusInternalServerError == 500

EmptyBody == [kind |-> "empty"]
JsonBody(obj) == [kind |-> "json", obj |-> obj]

\* What a handler leaves behind: the status code and body it set, the
\* cluster calls it made, the records it logged, and whether it ended in a
\* panic (a nil pointer dereference) instead of returning.
Outcome(status, body, calls, out) ==
    [status |-> status, body |-> body, calls |-> calls, out |-> out, fault |-> FALSE]
Panic(calls, out) ==
    [status |-> StatusOK, body |-> EmptyBody, calls |-> calls, out |-> out, fault |-> TRUE]

\* namespace := string(ctx.QueryArgs().Peek("namespace")), "default" if empty.
NamespaceOf(q) == IF q = "" THEN "default" ELSE q

handleHealth ==
    Outcome(StatusOK,
            JsonBody(MarshalResponse(
                [Success |-> TRUE, Message |-> "Server is healthy", Error |-> "",
                 Data |-> GoMap([timestamp |-> "now", version |-> "1.0.0"])])),
            <<>>, <<>>)

handleWatchDeployments ==
    Outcome(StatusOK,
            JsonBody(MarshalResponse(
                [Success |-> TRUE, Error |-> "",
                 Message |-> "Watch endpoint - implement SSE for real-time updates",
                 Data |-> GoMap([feature |-> "deployment_watching",
                                 status |-> "not_implemented"])])),
            <<>>, <<>>)

handleNotFound ==
    Outcome(StatusNotFound,
            JsonBody(MarshalResponse(
                [Success |-> FALSE, Error |-> "Endpoint not found",
                 Message |-> "The requested endpoint does not exist",
                 Data |-> NilInterface])),
            <<>>, <<>>)

\* sendErrorResponse without the call of SetStatusCode.
sendErrorResponseNoStatus(message, err, statusCode, calls, out) ==
    Outcome(StatusOK,
            JsonBody(MarshalResponse(
                [Success |-> FALSE, Error |-> message, Message |-> err,
                 Data |-> NilInterface])),
            calls, out)

sendErrorResponse(message, err, statusCode, calls, out) ==
    Outcome(statusCode,
            JsonBody(MarshalResponse(
                [Success |-> FALSE, Error |-> message, Message |-> err,
                 Data |-> NilInterface])),
            calls, out)

\* Healthy with the comparison made strict.
HealthyStrict(ready, desired) == ready > desired

\* Healthy: readyReplicas >= desiredReplicas.
Healthy(ready, desired) == ready >= desired

\* The body of the loop over deployments.Items in handleGetDeployments.
DeploymentStatusOf(d) ==
    [name |-> d.name, namespace |-> d.namespace, ready_replicas |-> d.ready,
     desired_replicas |-> d.replicas.v, available_replicas |-> d.available,
     updated_replicas |-> d.updated, healthy |-> Healthy(d.ready, d.replicas.v)]

RECURSIVE DeploymentsLoop(_, _, _, _, _)
\* acc = [statuses, out, fault]: the slice and the log so far.
DeploymentsLoop(items, acc, nsLogger, glevel, i) ==
    IF i > Len(items) \/ acc.fault THEN acc
    ELSE LET d == items[i]
         IN  IF d.replicas.isNil
             THEN [acc EXCEPT !.fault = TRUE]
             ELSE LET st == DeploymentStatusOf(d)
                      rec == Emit(WithDeployment(nsLogger, d.name), glevel, InfoLevel,
                                  "Deployment status retrieved", NilErr,
                                  << <<"ready_replicas", st.ready_replicas>>,
                                     <<"desired_replicas", st.desired_replicas>>,
                                     <<"available_replicas", st.available_replicas>>,
                                     <<"healthy", st.healthy>> >>)
                  IN  DeploymentsLoop(items,
                                      [statuses |-> GoAppend(acc.statuses, st),
                                       out |-> acc.out \o rec, fault |-> FALSE],
                                      nsLogger, glevel, i + 1)

handleGetDeployments(q, l, glevel, err, avail) ==
    LET namespace == NamespaceOf(q)
        nsLogger == WithNamespace(l, namespace)
        out1 == Emit(nsLogger, glevel, InfoLevel, "HTTP request: Get deployments", NilErr,
                     << <<"namespace", namespace>> >>)
        call == ListCall("deployments", namespace, 0, err, avail)
    IN  IF err # NilErr
        THEN sendErrorResponse("Failed to get deployments", err, StatusInternalServerError,
                               <<call>>,
                               out1 \o Emit(nsLogger, glevel, ErrorLevel,
                                            "Failed to get deployments", err, <<>>))
        ELSE LET acc == DeploymentsLoop(call.items,
                                        [statuses |-> NilSlice, out |-> out1, fault |-> FALSE],
                                        nsLogger, glevel, 1)
             IN  IF acc.fault THEN Panic(<<call>>, acc.out)
                 ELSE Outcome(StatusOK,
                              JsonBody(MarshalResponse(
                                  [Success |-> TRUE, Error |-> "", Message |-> "",
                                   Data |-> GoMap([deployments |-> MarshalSlice(acc.statuses),
                                                   namespace |-> namespace,
                                                   count |-> GoLen(acc.statuses)])])),
                              <<call>>, acc.out)

DefaultLimit == 10

\* EffectiveLimit with the test l > 0 weakened to l >= 0.
EffectiveLimitNonNegative(limitStr) ==
    IF limitStr # <<>> /\ Atoi(limitStr).ok /\ Atoi(limitStr).n >= 0
    THEN Atoi(limitStr).n
    ELSE DefaultLimit

\* limit := 10; the query value replaces it when it is not empty, parses
\* and is greater than 0.
EffectiveLimit(limitStr) ==
    IF limitStr # <<>> /\ Atoi(limitStr).ok /\ Atoi(limitStr).n > 0
    THEN Atoi(limitStr).n
    ELSE DefaultLimit

\* The list options with Limit left unset.
EventsListLimitUnset(limit) == 0

\* metav1.ListOptions{Limit: int64(limit)}
EventsListLimit(limit) == limit

EventOf(e) ==
    [type |-> e.type, reason |-> e.reason, message |-> e.message,
     timestamp |-> e.lastTimestamp, object |-> e.involved]

\* switch event.Type: Warning -> Warn, Normal -> Debug, default -> Info.
EventLogLevel(type) ==
    CASE type = "Warning" -> WarnLevel
      [] type = "Normal" -> DebugLevel
      [] OTHER -> InfoLevel

LogEvent(nsLogger, glevel, e) ==
    Emit(WithDeployment(nsLogger, e.involved), glevel, EventLogLevel(e.type),
         "Kubernetes event", NilErr,
         << <<"event_type", e.type>>, <<"event_reason", e.reason>>,
            <<"event_message", e.message>>, <<"timestamp", e.lastTimestamp>> >>)

RECURSIVE EventsLoop(_, _, _, _, _)
\* acc = [eventList, out]
EventsLoop(items, acc, nsLogger, glevel, i) ==
    IF i > Len(items) THEN acc
    ELSE EventsLoop(items,
                    [eventList |-> GoAppend(acc.eventList, EventOf(items[i])),
                     out |-> acc.out \o LogEvent(nsLogger, glevel, items[i])],
                    nsLogger, glevel, i + 1)

handleGetEvents(q, limitStr, l, glevel, err, avail) ==
    LET namespace == NamespaceOf(q)
        limit == EffectiveLimit(limitStr)
        nsLogger == WithNamespace(l, namespace)
        out1 == Emit(nsLogger, glevel, InfoLevel, "HTTP request: Get events", NilErr,
                     << <<"namespace", namespace>>, <<"limit", limit>> >>)
        call == ListCall("events", namespace, EventsListLimit(limit), err, avail)
    IN  IF err # NilErr
        THEN sendErrorResponse("Failed to get events", err, StatusInternalServerError,
                               <<call>>,
                               out1 \o Emit(nsLogger, glevel, ErrorLevel,
                                            "Failed to get events", err, <<>>))
        ELSE LET acc == EventsLoop(call.items, [eventList |-> NilSlice, out |-> out1],
                                   nsLogger, glevel, 1)
             IN  Outcome(StatusOK,
                         JsonBody(MarshalResponse(
                             [Success |-> TRUE, Error |-> "", Message |-> "",
                              Data |-> GoMap([events |-> MarshalSlice(acc.eventList),
                                              namespace |-> namespace,
                                              count |-> GoLen(acc.eventList)])])),
                         <<call>>, acc.out)

\* The histogram with an entry for every phase, the missing ones at zero.
PodStatusEveryPhase(pods) ==
    [ph \in PodPhases |-> Cardinality({i \in DOMAIN pods : pods[i] = ph})]

\* podStatus[pod.Status.Phase]++ over pods.Items.
PodStatus(pods) ==
    [ph \in Range(pods) |-> Cardinality({i \in DOMAIN pods : pods[i] = ph})]

RECURSIVE HealthTally(_, _, _)
\* acc = [healthy, unhealthy, fault]
HealthTally(items, acc, i) ==
    IF i > Len(items) \/ acc.fault THEN acc
    ELSE LET d == items[i]
         IN  IF d.replicas.isNil THEN [acc EXCEPT !.fault = TRUE]
             ELSE IF d.ready >= d.replicas.v
                  THEN HealthTally(items, [acc EXCEPT !.healthy = @ + 1], i + 1)
                  ELSE HealthTally(items, [acc EXCEPT !.unhealthy = @ + 1], i + 1)

handleGetStatus(q, l, glevel, depErr, deps, podErr, pods, svcErr, svcs) ==
    LET namespace == NamespaceOf(q)
        nsLogger == WithNamespace(l, namespace)
        out1 == Emit(nsLogger, glevel, InfoLevel, "HTTP request: Get cluster status", NilErr,
                     << <<"namespace", namespace>> >>)
        depCall == ListCall("deployments", namespace, 0, depErr, deps)
        podCall == ListCall("pods", namespace, 0, podErr, pods)
        svcCall == ListCall("services", namespace, 0, svcErr, svcs)
    IN  IF depErr # NilErr
        THEN sendErrorResponse("Failed to get deployments", depErr,
                               StatusInternalServerError, <<depCall>>,
                               out1 \o Emit(nsLogger, glevel, ErrorLevel,
                                            "Failed to get deployments", depErr, <<>>))
        ELSE IF podErr # NilErr
        THEN sendErrorResponse("Failed to get pods", podErr,
                               StatusInternalServerError, <<depCall, podCall>>,
                               out1 \o Emit(nsLogger, glevel, ErrorLevel,
                                            "Failed to get pods", podErr, <<>>))
        ELSE IF svcErr # NilErr
        THEN sendErrorResponse("Failed to get services", svcErr,
                               StatusInternalServerError, <<depCall, podCall, svcCall>>,
                               out1 \o Emit(nsLogger, glevel, ErrorLevel,
                                            "Failed to get services", svcErr, <<>>))
        ELSE LET tally == HealthTally(depCall.items,
                                      [healthy |-> 0, unhealthy |-> 0, fault |-> FALSE], 1)
                 calls == <<depCall, podCall, svcCall>>
             IN  IF tally.fault THEN Panic(calls, out1)
                 ELSE Outcome(StatusOK,
                              JsonBody(MarshalResponse(
                                  [Success |-> TRUE, Error |-> "", Message |-> "",
                                   Data |-> GoMap(
                                       [namespace |-> [name |-> namespace],
                                        deployments |-> [total |-> Len(depCall.items),
                                                         healthy |-> tally.healthy,
                                                         unhealthy |-> tally.unhealthy],
                                        pods |-> [total |-> Len(podCall.items),
                                                  status |-> PodStatus(podCall.items)],
                                        services |-> [total |-> Len(svcCall.items)],
                                        timestamp |-> "now"])])),
                              calls, out1)

CorsHeaders ==
    ("Access-Control-Allow-Origin" :> "*")
        @@ ("Access-Control-Allow-Methods" :> "GET, POST, OPTIONS")
        @@ ("Access-Control-Allow-Headers" :> "Content-Type")

JsonContentType == "Content-Type" :> "application/json"

\* The switch with the method test of the events route dropped.
RouteEventsAnyMethod(r, l, glevel, in) ==
    CASE r.path = "/health" /\ r.method = "GET" -> handleHealth
      [] r.path = "/api/v1/deployments" /\ r.method = "GET" ->
            handleGetDeployments(r.namespace, l, glevel, in.depErr, in.deps)
      [] r.path = "/api/v1/deployments" /\ r.method = "POST" -> handleWatchDeployments
      [] r.path = "/api/v1/events" ->
            handleGetEvents(r.namespace, r.limit, l, glevel, in.evErr, in.events)
      [] r.path = "/api/v1/status" /\ r.method = "GET" ->
            handleGetStatus(r.namespace, l, glevel, in.depErr, in.deps,
                            in.podErr, in.pods, in.svcErr, in.svcs)
      [] OTHER -> handleNotFound

\* The switch of createHandler.
Route(r, l, glevel, in) ==
    CASE r.path = "/health" /\ r.method = "GET" -> handleHealth
      [] r.path = "/api/v1/deployments" /\ r.method = "GET" ->
            handleGetDeployments(r.namespace, l, glevel, in.depErr, in.deps)
      [] r.path = "/api/v1/deployments" /\ r.method = "POST" -> handleWatchDeployments
      [] r.path = "/api/v1/events" /\ r.method = "GET" ->
            handleGetEvents(r.namespace, r.limit, l, glevel, in.evErr, in.events)
      [] r.path = "/api/v1/status" /\ r.method = "GET" ->
            handleGetStatus(r.namespace, l, glevel, in.depErr, in.deps,
                            in.podErr, in.pods, in.svcErr, in.svcs)
      [] OTHER -> handleNotFound

\* createHandler with the CORS headers set after the preflight return.
createHandlerCorsAfterPreflight(r, l, glevel, in) ==
    IF r.method = "OPTIONS"
    THEN [status |-> StatusOK, headers |-> <<>>, body |-> EmptyBody,
          calls |-> <<>>, out |-> <<>>, fault |-> FALSE]
    ELSE LET dbg == Emit(l, glevel, DebugLevel, "HTTP request", NilErr,
                         << <<"method", r.method>>, <<"path", r.path>>,
                            <<"remote", "remote-addr">> >>)
             o == Route(r, l, glevel, in)
         IN  [status |-> o.status, headers |-> CorsHeaders @@ JsonContentType,
              body |-> o.body, calls |-> o.calls, out |-> dbg \o o.out,
              fault |-> o.fault]

\* The request handler createHandler returns: [status, headers, body, calls,
\* out, fault].
createHandler(r, l, glevel, in) ==
    IF r.method = "OPTIONS"
    THEN [status |-> StatusOK, headers |-> CorsHeaders, body |-> EmptyBody,
          calls |-> <<>>, out |-> <<>>, fault |-> FALSE]
    ELSE LET dbg == Emit(l, glevel, DebugLevel, "HTTP request", NilErr,
                         << <<"method", r.method>>, <<"path", r.path>>,
                            <<"remote", "remote-addr">> >>)
             o == Route(r, l, glevel, in)
         IN  [status |-> o.status, headers |-> CorsHeaders @@ JsonContentType,
              body |-> o.body, calls |-> o.calls, out |-> dbg \o o.out,
              fault |-> o.fault]

(***************************************************************************)
(* cmd/controller.go: the one-shot status report.                          *)
(***************************************************************************)
\* A line the fmt package writes to standard output, kept as its format and
\* its arguments.
StdoutLine(format, args) ==
    << [level |-> "print", message |-> format, fields |-> {<<"args", args>>}] >>

\* What a CLI step leaves behind.
CliOutcome(calls, out, fault) == [calls |-> calls, out |-> out, fault |-> fault]

RECURSIVE RecentEventsLoop(_, _, _, _, _)
RecentEventsLoop(items, out, nsLogger, glevel, i) ==
    IF i > Len(items) THEN out
    ELSE RecentEventsLoop(items,
                          out \o StdoutLine("[%s] %s: %s",
                                       <<items[i].lastTimestamp, items[i].reason,
                                         items[i].message>>)
                              \o LogEvent(nsLogger, glevel, items[i]),
                          nsLogger, glevel, i + 1)

showRecentEvents(ns, nsLogger, glevel, evErr, events) ==
    LET out1 == Emit(nsLogger, glevel, InfoLevel, "Fetching recent events", NilErr, <<>>)
        call == ListCall("events", ns, 10, evErr, events)
    IN  IF evErr # NilErr
        THEN CliOutcome(<<call>>,
                        out1 \o Emit(nsLogger, glevel, ErrorLevel, "Failed to get events",
                                     evErr, <<>>),
                        FALSE)
        ELSE CliOutcome(<<call>>,
                        RecentEventsLoop(call.items,
                                         out1 \o Emit(nsLogger, glevel, InfoLevel,
                                                      "Events retrieved", NilErr,
                                                      << <<"event_count", Len(call.items)>> >>)
                                              \o StdoutLine("RECENT EVENTS", <<>>)
                                              \o StdoutLine("=============", <<>>),
                                         nsLogger, glevel, 1),
                        FALSE)

\* The warning of the report: readyReplicas < desiredReplicas.
FewerReadyThanDesired(ready, desired) == ready < desired

RECURSIVE StatusLoop(_, _, _, _, _)
\* acc = [out, fault]
StatusLoop(items, acc, nsLogger, glevel, i) ==
    IF i > Len(items) \/ acc.fault THEN acc
    ELSE LET d == items[i]
             dl == WithDeployment(nsLogger, d.name)
         IN  IF d.replicas.isNil THEN [acc EXCEPT !.fault = TRUE]
             ELSE StatusLoop(items,
                      [out |-> acc.out
                          \o Emit(dl, glevel, InfoLevel, "Deployment status", NilErr,
                                  << <<"ready_replicas", d.ready>>,
                                     <<"desired_replicas", d.replicas.v>>,
                                     <<"available_replicas", d.available>>,
                                     <<"updated_replicas", d.updated>> >>)
                          \o StdoutLine("Deployment: %s", <<d.name>>)
                          \o StdoutLine("  Replicas: %d/%d (Available: %d, Ready: %d)",
                                   <<d.ready, d.replicas.v, d.available, d.ready>>)
                          \o (IF FewerReadyThanDesired(d.ready, d.replicas.v)
                              THEN Emit(dl, glevel, WarnLevel,
                                        "Deployment has fewer ready replicas than desired",
                                        NilErr,
                                        << <<"ready_replicas", d.ready>>,
                                           <<"desired_replicas", d.replicas.v>> >>)
                              ELSE <<>>),
                       fault |-> FALSE],
                      nsLogger, glevel, i + 1)

showDeploymentStatus(ns, nsLogger, glevel, depErr, deps, evErr, events) ==
    LET out1 == Emit(nsLogger, glevel, InfoLevel, "Fetching deployment status", NilErr, <<>>)
        call == ListCall("deployments", ns, 0, depErr, deps)
    IN  IF depErr # NilErr
        THEN CliOutcome(<<call>>,
                        out1 \o Emit(nsLogger, glevel, ErrorLevel,
                                     "Failed to get deployments", depErr, <<>>),
                        FALSE)
        ELSE LET acc == StatusLoop(call.items,
                                   [out |-> out1
                                        \o Emit(nsLogger, glevel, InfoLevel,
                                                "Deployment status retrieved", NilErr,
                                                << <<"deployment_count", Len(call.items)>> >>)
                                        \o StdoutLine("DEPLOYMENT STATUS", <<>>)
                                        \o StdoutLine("=================", <<>>),
                                    fault |-> FALSE],
                                   nsLogger, glevel, 1)
                 ev == showRecentEvents(ns, nsLogger, glevel, evErr, events)
             IN  IF acc.fault THEN CliOutcome(<<call>>, acc.out, TRUE)
                 ELSE CliOutcome(<<call>> \o ev.calls, acc.out \o ev.out, FALSE)

(***************************************************************************)
(* cmd/manager.go: DeploymentReconciler.Reconcile.                         *)
(***************************************************************************)
RequeueSeconds == 30

\* The Get that writes the object back.
GetCallThenUpdate(ns, name, got) ==
    [verb |-> "update", resource |-> "deployments", namespace |-> ns, name |-> name,
     err |-> got.err, items |-> IF got.err = NilErr THEN <<got.obj>> ELSE <<>>]

GetCall(ns, name, got) ==
    [verb |-> "get", resource |-> "deployments", namespace |-> ns, name |-> name,
     err |-> got.err, items |-> IF got.err = NilErr THEN <<got.obj>> ELSE <<>>]

\* Reconcile that asks for no requeue when it has found the deployment.
ReconcileWithoutRequeue(request, l, glevel, got) ==
    LET reqLogger == WithDeployment(WithNamespace(l, request.namespace), request.name)
        out1 == Emit(reqLogger, glevel, InfoLevel, "Reconciling Deployment", NilErr,
                     << <<"request", <<request.namespace, request.name>> >> >>)
        call == GetCall(request.namespace, request.name, got)
    IN  IF got.err = "not found"
        THEN [requeueAfter |-> 0, err |-> NilErr, calls |-> <<call>>, fault |-> FALSE,
              out |-> out1]
        ELSE IF got.err # NilErr
        THEN [requeueAfter |-> 0, err |-> got.err, calls |-> <<call>>, fault |-> FALSE,
              out |-> out1]
        ELSE [requeueAfter |-> 0, err |-> NilErr, calls |-> <<call>>, fault |-> FALSE,
              out |-> out1]

\* got = [err, obj]: err is NilErr, "not found" or another error.
Reconcile(request, l, glevel, got) ==
    LET reqLogger == WithDeployment(WithNamespace(l, request.namespace), request.name)
        out1 == Emit(reqLogger, glevel, InfoLevel, "Reconciling Deployment", NilErr,
                     << <<"request", <<request.namespace, request.name>> >> >>)
        call == GetCall(request.namespace, request.name, got)
        d == got.obj
    IN  IF got.err = "not found"
        THEN [requeueAfter |-> 0, err |-> NilErr, calls |-> <<call>>, fault |-> FALSE,
              out |-> out1 \o Emit(reqLogger, glevel, InfoLevel,
                                   "Deployment not found, probably deleted", NilErr,
                                   << <<"deployment", request.name>> >>)]
        ELSE IF got.err # NilErr
        THEN [requeueAfter |-> 0, err |-> got.err, calls |-> <<call>>, fault |-> FALSE,
              out |-> out1 \o Emit(reqLogger, glevel, ErrorLevel,
                                   "Failed to get Deployment", got.err, <<>>)]
        ELSE IF d.replicas.isNil
        THEN [requeueAfter |-> 0, err |-> NilErr, calls |-> <<call>>, fault |-> TRUE,
              out |-> out1]
        ELSE LET isHealthy == d.ready >= d.replicas.v
                 out2 == Emit(reqLogger, glevel, InfoLevel, "Deployment status", NilErr,
                              << <<"ready_replicas", d.ready>>,
                                 <<"desired_replicas", d.replicas.v>>,
                                 <<"available_replicas", d.available>>,
                                 <<"updated_replicas", d.updated>> >>)
                 out3 == IF ~isHealthy
                         THEN Emit(reqLogger, glevel, WarnLevel, "Deployment is not healthy",
                                   NilErr,
                                   << <<"ready_replicas", d.ready>>,
                                      <<"desired_replicas", d.replicas.v>> >>)
                         ELSE Emit(reqLogger, glevel, InfoLevel, "Deployment is healthy",
                                   NilErr, << <<"replicas", d.ready>> >>)
             IN  [requeueAfter |-> RequeueSeconds, err |-> NilErr, calls |-> <<call>>,
                  fault |-> FALSE, out |-> out1 \o out2 \o out3]

(***************************************************************************)
(* cmd/controller.go: the handlers watchDeploymentsWithInformer registers. *)
(* A notification is what the informer hands to a handler: the old and the *)
(* new object, and for a delete whether the object is wrapped in a         *)
(* cache.DeletedFinalStateUnknown tombstone.                               *)
(***************************************************************************)
Absent == [kind |-> "absent"]
Notification(type, name, old, new, tombstone) ==
    [type |-> type, name |-> name, old |-> old, new |-> new, tombstone |-> tombstone]

\* AddFunc: the dereference of Spec.Replicas comes before the Info call.
AddFunc(n, nsLogger, glevel) ==
    LET d == n.new
        dl == WithDeployment(nsLogger, d.name)
    IN  IF d.replicas.isNil THEN CliOutcome(<<>>, <<>>, TRUE)
        ELSE CliOutcome(<<>>,
                 Emit(dl, glevel, InfoLevel, "Deployment added", NilErr,
                      << <<"event_type", "ADDED">>, <<"ready_replicas", d.ready>>,
                         <<"desired_replicas", d.replicas.v>> >>)
                     \o StdoutLine("[%s] ADDED: %s (%d/%d replicas)",
                                   <<"now", d.name, d.ready, d.replicas.v>>),
                 FALSE)

\* UpdateFunc that reports the counts of the new object as the old ones.
UpdateFuncNewCountsOnly(n, nsLogger, glevel) ==
    LET dl == WithDeployment(nsLogger, n.new.name)
    IN  IF n.old.replicas.isNil \/ n.new.replicas.isNil THEN CliOutcome(<<>>, <<>>, TRUE)
        ELSE CliOutcome(<<>>,
                 Emit(dl, glevel, InfoLevel, "Deployment updated", NilErr,
                      << <<"event_type", "MODIFIED">>,
                         <<"old_ready_replicas", n.new.ready>>,
                         <<"new_ready_replicas", n.new.ready>>,
                         <<"old_desired_replicas", n.new.replicas.v>>,
                         <<"new_desired_replicas", n.new.replicas.v>> >>)
                     \o StdoutLine("[%s] MODIFIED: %s (%d/%d -> %d/%d replicas)",
                                   <<"now", n.new.name, n.new.ready, n.new.replicas.v,
                                     n.new.ready, n.new.replicas.v>>),
                 FALSE)

\* UpdateFunc: both objects are dereferenced.
UpdateFunc(n, nsLogger, glevel) ==
    LET dl == WithDeployment(nsLogger, n.new.name)
    IN  IF n.old.replicas.isNil \/ n.new.replicas.isNil THEN CliOutcome(<<>>, <<>>, TRUE)
        ELSE CliOutcome(<<>>,
                 Emit(dl, glevel, InfoLevel, "Deployment updated", NilErr,
                      << <<"event_type", "MODIFIED">>,
                         <<"old_ready_replicas", n.old.ready>>,
                         <<"new_ready_replicas", n.new.ready>>,
                         <<"old_desired_replicas", n.old.replicas.v>>,
                         <<"new_desired_replicas", n.new.replicas.v>> >>)
                     \o StdoutLine("[%s] MODIFIED: %s (%d/%d -> %d/%d replicas)",
                                   <<"now", n.new.name, n.old.ready, n.old.replicas.v,
                                     n.new.ready, n.new.replicas.v>>),
                 FALSE)

\* DeleteFunc: obj.(*appsv1.Deployment) panics on a tombstone.
DeleteFunc(n, nsLogger, glevel) ==
    LET dl == WithDeployment(nsLogger, n.old.name)
    IN  IF n.tombstone THEN CliOutcome(<<>>, <<>>, TRUE)
        ELSE CliOutcome(<<>>,
                 Emit(dl, glevel, InfoLevel, "Deployment deleted", NilErr,
                      << <<"event_type", "DELETED">> >>)
                     \o StdoutLine("[%s] DELETED: %s", <<"now", n.old.name>>),
                 FALSE)

\* cache.ResourceEventHandlerFuncs: the handler of the notification's type.
OnNotification(n, nsLogger, glevel) ==
    CASE n.type = "add" -> AddFunc(n, nsLogger, glevel)
      [] n.type = "update" -> UpdateFunc(n, nsLogger, glevel)
      [] n.type = "delete" -> DeleteFunc(n, nsLogger, glevel)

(***************************************************************************)
(* cmd/controller.go: getKubernetesClient.                                 *)
(***************************************************************************)
NoClientset == [kind |-> "nil"]
Clientset(source, path) == [kind |-> "clientset", source |-> source, path |-> path]
InClusterSource == "in-cluster"
LoadError == "no such file or directory"

\* What the resolution consults, in order: a flag variable, an environment
\* variable, or a load of a credential source.
ReadFlag(name) == [op |-> "flag", name |-> name]
Getenv(name) == [op |-> "getenv", name |-> name]
Load(source) == [op |-> "load", name |-> source]

\* The tail of getKubernetesClient: kubernetes.NewForConfig and the last
\* Debug record.
NewForConfig(source, path, newErr, reads, out, inC, l, glevel) ==
    IF newErr # NilErr
    THEN [clientset |-> NoClientset, err |-> "failed to create clientset: " \o newErr,
          reads |-> reads, out |-> out]
    ELSE [clientset |-> Clientset(source, path), err |-> NilErr, reads |-> reads,
          out |-> out \o Emit(l, glevel, DebugLevel,
                              "Kubernetes client created successfully", NilErr,
                              << <<"auth_method",
                                   IF inC THEN "in_cluster" ELSE "kubeconfig">> >>)]

\* getKubernetesClient with a kubeconfig path that falls back to the
\* in-cluster credentials when the file does not load.
getKubernetesClientFallback(inC, kcfg, osenv, bad, newErr, l, glevel) ==
    LET viaEnv == IF kcfg = "" THEN osenv.KUBECONFIG ELSE kcfg
        path == IF viaEnv = "" THEN osenv.HOME \o "/.kube/config" ELSE viaEnv
        reads == <<ReadFlag("kubeconfig")>>
                    \o (IF kcfg = "" THEN <<Getenv("KUBECONFIG")>> ELSE <<>>)
                    \o (IF viaEnv = "" THEN <<Getenv("HOME")>> ELSE <<>>)
                    \o <<Load(path)>>
    IN  IF inC \/ path \in bad
        THEN IF InClusterSource \in bad
             THEN [clientset |-> NoClientset,
                   err |-> "failed to load in-cluster config: " \o LoadError,
                   reads |-> (IF inC THEN <<>> ELSE reads) \o <<Load(InClusterSource)>>,
                   out |-> <<>>]
             ELSE NewForConfig("in-cluster", "", newErr,
                               (IF inC THEN <<>> ELSE reads) \o <<Load(InClusterSource)>>,
                               <<>>, inC, l, glevel)
        ELSE NewForConfig("kubeconfig", path, newErr, reads, <<>>, inC, l, glevel)

\* getKubernetesClient: inC and kcfg are the package variables inCluster and
\* kubeconfig, osenv the process environment, bad the credential sources
\* that do not load, newErr what kubernetes.NewForConfig returns.
getKubernetesClient(inC, kcfg, osenv, bad, newErr, l, glevel) ==
    IF inC
    THEN LET out1 == Emit(l, glevel, DebugLevel, "Using in-cluster config", NilErr, <<>>)
             reads == <<Load(InClusterSource)>>
         IN  IF InClusterSource \in bad
             THEN [clientset |-> NoClientset,
                   err |-> "failed to load in-cluster config: " \o LoadError,
                   reads |-> reads, out |-> out1]
             ELSE NewForConfig("in-cluster", "", newErr, reads, out1, inC, l, glevel)
    ELSE LET viaEnv == IF kcfg = "" THEN osenv.KUBECONFIG ELSE kcfg
             path == IF viaEnv = "" THEN osenv.HOME \o "/.kube/config" ELSE viaEnv
             reads == <<ReadFlag("kubeconfig")>>
                         \o (IF kcfg = "" THEN <<Getenv("KUBECONFIG")>> ELSE <<>>)
                         \o (IF viaEnv = "" THEN <<Getenv("HOME")>> ELSE <<>>)
                         \o <<Load(path)>>
             out1 == Emit(l, glevel, DebugLevel, "Loading kubeconfig", NilErr,
                          << <<"kubeconfig_path", path>> >>)
         IN  IF path \in bad
             THEN [clientset |-> NoClientset,
                   err |-> "failed to load kubeconfig: " \o LoadError,
                   reads |-> reads, out |-> out1]
             ELSE NewForConfig("kubeconfig", path, newErr, reads, out1, inC, l, glevel)

(***************************************************************************)
(* cmd/controller.go, the command with the --watch flag: its               *)
(* getKubernetesClient and the loop of watchDeployments.                   *)
(***************************************************************************)
\* What the result channel of a watch carries: a change with the deployment
\* as it is now, or an error with a *metav1.Status in place of the object.
StatusObject == [kind |-> "Status"]
WatchEvent(type, object) == [type |-> type, object |-> object]

\* getKubernetesClient of this command: the kubeconfig path only.
getKubernetesClientKubeconfigOnly(kcfg, osenv, bad, newErr, l, glevel) ==
    LET viaEnv == IF kcfg = "" THEN osenv.KUBECONFIG ELSE kcfg
        path == IF viaEnv = "" THEN osenv.HOME \o "/.kube/config" ELSE viaEnv
        reads == <<ReadFlag("kubeconfig")>>
                    \o (IF kcfg = "" THEN <<Getenv("KUBECONFIG")>> ELSE <<>>)
                    \o (IF viaEnv = "" THEN <<Getenv("HOME")>> ELSE <<>>)
                    \o <<Load(path)>>
        out1 == Emit(l, glevel, DebugLevel, "Loading kubeconfig", NilErr,
                     << <<"kubeconfig_path", path>> >>)
    IN  IF path \in bad
        THEN [clientset |-> NoClientset, err |-> "failed to load kubeconfig: " \o LoadError,
              reads |-> reads, out |-> out1]
        ELSE IF newErr # NilErr
        THEN [clientset |-> NoClientset, err |-> "failed to create clientset: " \o newErr,
              reads |-> reads, out |-> out1]
        ELSE [clientset |-> Clientset("kubeconfig", path), err |-> NilErr, reads |-> reads,
              out |-> out1 \o Emit(l, glevel, DebugLevel,
                                   "Kubernetes client created successfully", NilErr, <<>>)]

\* The body of the range loop over watcher.ResultChan(): the type assertion
\* event.Object.(*appsv1.Deployment) panics on the Status of an error event.
WatchLoopBody(event, nsLogger, glevel) ==
    LET d == event.object
        dl == WithDeployment(nsLogger, d.name)
    IN  IF d = StatusObject THEN CliOutcome(<<>>, <<>>, TRUE)
        ELSE IF d.replicas.isNil THEN CliOutcome(<<>>, <<>>, TRUE)
        ELSE CliOutcome(<<>>,
                 Emit(dl, glevel, InfoLevel, "Deployment event detected", NilErr,
                      << <<"event_type", event.type>>, <<"deployment_name", d.name>>,
                         <<"ready_replicas", d.ready>>,
                         <<"desired_replicas", d.replicas.v>> >>)
                     \o StdoutLine("[%s] %s: %s", <<"now", event.type, d.name>>),
                 FALSE)

(***************************************************************************)
(* The program as a state machine.                                         *)
(***************************************************************************)
VARIABLES
    env,        \* the value of the environment variable ENV
    glevel,     \* zerolog's global level, set by New()
    log,        \* the package-level logger
    cmd,        \* the command this process runs
    nsFlag,     \* the package-level namespace variable of the controller command
    pc,         \* where the process is
    req,        \* the last HTTP or reconcile request
    resp,       \* the response written for it: [status, headers, body]
    calls,      \* the cluster calls the last operation made
    stdout,     \* the records the last operation wrote
    result,     \* what the last Reconcile returned
    loggers,    \* the Logger values in existence, each one its context
    lastCall,   \* the last call on a Logger: a derivation, or the log call
                \* whose record is in stdout
    inCluster,  \* the package-level variable of the --in-cluster flag
    kubeconfig, \* the package-level variable of the --kubeconfig flag
    environ,    \* the environment variables KUBECONFIG and HOME
    unloadable, \* the credential sources that fail to load
    client,     \* what getKubernetesClient returned, and what it consulted
    ctxDone,    \* whether the context of the informer session is cancelled
    signal,     \* where the process was when SIGINT reached it, or "none"
    cluster,    \* the deployments of the namespace, by name
    store,      \* the informer's cache of them, by name
    hasSynced,  \* whether the initial list has been put in the cache
    listFailed, \* whether a list call of the informer's reflector has failed
    pending,    \* the notifications queued for the handler, oldest first
    inCallback, \* whether a handler has just run, its output being in stdout
    handled,    \* per deployment, the last callback a handler completed for it
    fifo,       \* the initial listing not yet popped from the informer's queue
    watch,      \* the package-level variable of the --watch flag
    watcher,    \* the raw watch: the Watch calls made and the result channel
    workers,    \* per HTTP worker, the request it serves and its locals
    managed     \* per reconcile request of the manager, whether the deployment
                \* exists and where the request is in the work queue

credVars == <<inCluster, kubeconfig, environ, unloadable, client>>
flagVars == <<inCluster, kubeconfig, environ, unloadable>>
sessionVars == <<ctxDone, signal, cluster, store, hasSynced, listFailed, pending,
                 inCallback, handled, fifo>>
watchVars == <<watch, watcher>>
vars == <<env, glevel, log, cmd, nsFlag, pc, req, resp, calls, stdout, result,
          loggers, lastCall, credVars, sessionVars, watchVars, workers, managed>>
logVars == <<loggers, lastCall>>

EnvValues == {"", "prod"}
Commands == {"server", "controller", "manager"}
NamespaceFlags == {"default", "prod"}
Methods == {"GET", "POST", "OPTIONS", "DELETE"}
Paths == {"/health", "/api/v1/deployments", "/api/v1/events", "/api/v1/status",
          "/static/index.html", "/nope"}
QueryNamespaces == {"", "prod"}
LimitChars == {"-", "+", "0", "1", "a"}
LimitStrings == SeqsUpTo(LimitChars, MaxLimitLen)

NoRequest == [kind |-> "none"]
NoResponse == [status |-> 0, headers |-> <<>>, body |-> [kind |-> "none"]]
NoResult == [requeueAfter |-> 0, err |-> NilErr]
NoCall == [kind |-> "none"]
NoClient == [clientset |-> NoClientset, err |-> NilErr, reads |-> <<>>]
DefaultEnviron == [KUBECONFIG |-> "", HOME |-> "/root"]
HomeKubeconfig == "/root/.kube/config"

\* The deployments an informer session can see and the states of one.  The
\* API server defaults Spec.Replicas, so that the objects it sends have it.
WatchedNames == <<DeploymentNames[1], DeploymentNames[2]>>
WatchedObjects(ns, i) ==
    {DeploymentObject(ns, i, 1, Ptr(1)), DeploymentObject(ns, i, 0, Ptr(1))}
ClusterStates(ns) ==
    {c \in [DOMAIN WatchedNames -> UNION {WatchedObjects(ns, i) : i \in DOMAIN WatchedNames}
                                     \cup {Absent}] :
        \A i \in DOMAIN WatchedNames : c[i] = Absent \/ c[i] \in WatchedObjects(ns, i)}
EmptyCluster == [i \in DOMAIN WatchedNames |-> Absent]

\* No raw watch yet, and no HTTP request being served.
NoWatcher == [opens |-> 0, state |-> "none", ch |-> <<>>]
NoWatch == watch = FALSE /\ watcher = NoWatcher
WorkerIds == {"worker-1", "worker-2"}
IdleWorker == [pc |-> "idle"]
NoWorkers == [w \in WorkerIds |-> IdleWorker]

\* The requests the manager's controller can hand to Reconcile, and the
\* work queue before the manager has started.
ReconcileRequests == {[kind |-> "reconcile", namespace |-> ns, name |-> DeploymentNames[1]] :
                        ns \in NamespaceFlags}
NoManaged == [r \in ReconcileRequests |-> [exists |-> FALSE, due |-> "none"]]

\* No informer session yet.
NoSession ==
    /\ ctxDone = FALSE
    /\ signal = "none"
    /\ cluster = EmptyCluster
    /\ store = EmptyCluster
    /\ hasSynced = FALSE
    /\ listFailed = FALSE
    /\ pending = <<>>
    /\ inCallback = FALSE
    /\ handled = [i \in DOMAIN WatchedNames |-> "none"]
    /\ fifo = <<>>

Init ==
    /\ env \in EnvValues
    /\ glevel = LevelForEnv(env)
    /\ log = NewLogger(env)
    /\ cmd \in Commands
    /\ nsFlag \in (IF cmd = "controller" THEN NamespaceFlags ELSE {"default"})
    /\ pc = "start"
    /\ req = NoRequest
    /\ resp = NoResponse
    /\ calls = <<>>
    /\ stdout = <<>>
    /\ result = NoResult
    /\ loggers = <<log>>
    /\ lastCall = NoCall
    /\ inCluster = FALSE
    /\ kubeconfig = ""
    /\ environ = DefaultEnviron
    /\ unloadable \in (IF cmd = "manager" THEN {{}} ELSE {{}, {HomeKubeconfig}})
    /\ client = NoClient
    /\ NoSession
    /\ NoWatch
    /\ workers = NoWorkers
    /\ managed = NoManaged

\* runServer up to server.Serve: the client, then the listener.  The flags
\* of the controller command are not flags of the server command, so that
\* inCluster and kubeconfig have their zero values here.
RunServer ==
    /\ cmd = "server" /\ pc = "start"
    /\ \E newErr \in ErrOrNil, listenErr \in ErrOrNil :
        LET out1 == Emit(log, glevel, InfoLevel, "Starting HTTP server", NilErr,
                         << <<"host", "0.0.0.0">>, <<"port", 8080>> >>)
            c == getKubernetesClient(inCluster, kubeconfig, environ, unloadable, newErr,
                                     log, glevel)
            f1 == Fatal(log, glevel, "Failed to get Kubernetes client", c.err, <<>>)
            f2 == Fatal(log, glevel, "Failed to create listener", listenErr,
                        << <<"address", "0.0.0.0:8080">> >>)
            out2 == out1 \o c.out \o (IF c.err # NilErr THEN f1.out ELSE <<>>)
        IN  /\ client' = [clientset |-> c.clientset, err |-> c.err, reads |-> c.reads]
            /\ IF c.err # NilErr /\ f1.exit
               THEN /\ stdout' = out2
                    /\ pc' = "exited"
               ELSE IF listenErr # NilErr
               THEN /\ stdout' = out2 \o f2.out
                    /\ pc' = IF f2.exit THEN "exited" ELSE "serving"
               ELSE /\ stdout' = out2 \o Emit(log, glevel, InfoLevel,
                                              "HTTP server started successfully", NilErr,
                                              << <<"address", "0.0.0.0:8080">> >>)
                    /\ pc' = "serving"
    /\ UNCHANGED <<env, glevel, log, cmd, nsFlag, req, resp, calls, result, loggers, lastCall>>
    /\ UNCHANGED flagVars
    /\ UNCHANGED watchVars
    /\ UNCHANGED workers
    /\ UNCHANGED managed
    /\ UNCHANGED sessionVars

\* The requests within the bounds: the limit parameter is varied for the
\* events endpoint, which is the one that reads it.
HttpRequest(method, path, namespace, limit) ==
    [kind |-> "http", method |-> method, path |-> path, namespace |-> namespace,
     limit |-> limit]

LimitsFor(path) == IF path = "/api/v1/events" THEN LimitStrings ELSE {<<>>}
NamespacesFor(path) ==
    IF path \in {"/api/v1/deployments", "/api/v1/events", "/api/v1/status"}
    THEN QueryNamespaces ELSE {""}

\* The cluster's answers within the bounds: a call that fails returns
\* nothing, and only the calls a route makes are varied.
ErrsIf(used) == IF used THEN ErrOrNil ELSE {NilErr}
ListsOr(used, err, lists) == IF used /\ err = NilErr THEN lists ELSE {<<>>}
ReadsDeployments(method, path) ==
    method = "GET" /\ path \in {"/api/v1/deployments", "/api/v1/status"}
ReadsStatus(method, path) == method = "GET" /\ path = "/api/v1/status"
ReadsEvents(method, path) == method = "GET" /\ path = "/api/v1/events"

\* One request served by the handler of createHandler on a fresh request
\* context.  A panic in the handler is not recovered: no response is written
\* and the process dies.
HandleRequest ==
    /\ cmd = "server" /\ pc = "serving"
    /\ \E method \in Methods, path \in Paths :
       \E namespace \in NamespacesFor(path), limit \in LimitsFor(path) :
       \E depErr \in ErrsIf(ReadsDeployments(method, path)),
          podErr \in ErrsIf(ReadsStatus(method, path)),
          svcErr \in ErrsIf(ReadsStatus(method, path)),
          evErr \in ErrsIf(ReadsEvents(method, path)) :
       \E deps \in ListsOr(ReadsDeployments(method, path), depErr,
                           DeploymentLists(NamespaceOf(namespace))),
          pods \in ListsOr(ReadsStatus(method, path), podErr, PodLists),
          svcs \in ListsOr(ReadsStatus(method, path), svcErr, ServiceLists),
          events \in ListsOr(ReadsEvents(method, path), evErr, EventLists) :
        LET r == HttpRequest(method, path, namespace, limit)
            o == createHandler(r, log, glevel,
                               [depErr |-> depErr, deps |-> deps, podErr |-> podErr,
                                pods |-> pods, svcErr |-> svcErr, svcs |-> svcs,
                                evErr |-> evErr, events |-> events])
        IN  /\ req' = r
            /\ resp' = IF o.fault THEN NoResponse
                       ELSE [status |-> o.status, headers |-> o.headers, body |-> o.body]
            /\ calls' = o.calls
            /\ stdout' = o.out
            /\ pc' = IF o.fault THEN "crashed" ELSE "responded"
    /\ UNCHANGED <<env, glevel, log, cmd, nsFlag, result, loggers, lastCall>>
    /\ UNCHANGED credVars
    /\ UNCHANGED watchVars
    /\ UNCHANGED workers
    /\ UNCHANGED managed
    /\ UNCHANGED sessionVars

\* The server has sent the response and resets the request context for the
\* next request.
ReleaseCtx ==
    /\ cmd = "server" /\ pc = "responded"
    /\ req' = NoRequest
    /\ resp' = NoResponse
    /\ calls' = <<>>
    /\ stdout' = <<>>
    /\ pc' = "serving"
    /\ UNCHANGED <<env, glevel, log, cmd, nsFlag, result, loggers, lastCall>>
    /\ UNCHANGED credVars
    /\ UNCHANGED watchVars
    /\ UNCHANGED workers
    /\ UNCHANGED managed
    /\ UNCHANGED sessionVars

\* runController up to the status report.
RunController ==
    /\ cmd = "controller" /\ pc = "start"
    /\ \E newErr \in ErrOrNil :
        LET out1 == Emit(WithNamespace(log, nsFlag), glevel, InfoLevel,
                         "Starting Kubernetes Controller", NilErr,
                         << <<"namespace", nsFlag>>, <<"in_cluster", inCluster>>,
                            <<"kubeconfig", kubeconfig>>, <<"mode", "informer">> >>)
            c == getKubernetesClient(inCluster, kubeconfig, environ, unloadable, newErr,
                                     log, glevel)
            f == Fatal(log, glevel, "Failed to get Kubernetes client", c.err,
                       << <<"namespace", nsFlag>> >>)
        IN  /\ client' = [clientset |-> c.clientset, err |-> c.err, reads |-> c.reads]
            /\ IF c.err # NilErr
               THEN /\ stdout' = out1 \o c.out \o f.out
                    /\ pc' = IF f.exit THEN "exited" ELSE "status"
               ELSE /\ stdout' = out1 \o c.out
                    /\ pc' = "status"
    /\ UNCHANGED <<env, glevel, log, cmd, nsFlag, req, resp, calls, result, loggers, lastCall>>
    /\ UNCHANGED flagVars
    /\ UNCHANGED watchVars
    /\ UNCHANGED workers
    /\ UNCHANGED managed
    /\ UNCHANGED sessionVars

\* showDeploymentStatus(clientset, namespaceLogger), called once by
\* runController before the informer is started.
ShowDeploymentStatus ==
    /\ cmd = "controller" /\ pc = "status"
    /\ \E depErr \in ErrOrNil, evErr \in ErrOrNil :
       \E deps \in ListsOr(TRUE, depErr, DeploymentLists(nsFlag)),
          events \in ListsOr(TRUE, evErr, EventLists) :
        LET o == showDeploymentStatus(nsFlag, WithNamespace(log, nsFlag), glevel,
                                      depErr, deps, evErr, events)
        IN  /\ calls' = o.calls
            /\ stdout' = o.out
            /\ pc' = IF o.fault THEN "crashed" ELSE "informer"
    /\ UNCHANGED <<env, glevel, log, cmd, nsFlag, req, resp, result, loggers, lastCall>>
    /\ UNCHANGED credVars
    /\ UNCHANGED watchVars
    /\ UNCHANGED workers
    /\ UNCHANGED managed
    /\ UNCHANGED sessionVars

\* runManager up to mgr.Start: any of its set-up steps may fail.
RunManager ==
    /\ cmd = "manager" /\ pc = "start"
    /\ \E setupErr \in ErrOrNil :
        LET out1 == Emit(log, glevel, InfoLevel, "Starting controller-runtime manager",
                         NilErr, << <<"namespace", "">>, <<"in_cluster", FALSE>> >>)
            f == Fatal(log, glevel, "Failed to create manager", setupErr, <<>>)
        IN  IF setupErr # NilErr
            THEN /\ stdout' = out1 \o f.out
                 /\ pc' = IF f.exit THEN "exited" ELSE "running"
            ELSE /\ stdout' = out1 \o Emit(log, glevel, InfoLevel, "Starting manager",
                                           NilErr, << <<"leader_election", FALSE>> >>)
                 /\ pc' = "running"
    /\ UNCHANGED <<env, glevel, log, cmd, nsFlag, req, resp, calls, result, loggers, lastCall>>
    /\ UNCHANGED credVars
    /\ UNCHANGED watchVars
    /\ UNCHANGED workers
    /\ UNCHANGED managed
    /\ UNCHANGED sessionVars

GetErrors == {NilErr, "not found"} \cup ListErrors

\* One call of Reconcile by the controller-runtime worker.  Whether the
\* worker recovers a panic of Reconcile depends on the framework's options.
ReconcileStep ==
    /\ cmd = "manager" /\ pc = "running"
    /\ \E request \in ReconcileRequests, err \in GetErrors :
       \E ready \in ReplicaCounts,
          replicas \in (IF err = NilErr THEN ReplicaPtrs ELSE {NilPtr}) :
        LET o == Reconcile(request, log, glevel,
                           [err |-> err,
                            obj |-> DeploymentObject(request.namespace, 1,
                                                     IF err = NilErr THEN ready ELSE 0,
                                                     replicas)])
        IN  /\ req' = request
            /\ result' = [requeueAfter |-> o.requeueAfter, err |-> o.err]
            /\ calls' = o.calls
            /\ stdout' = o.out
            /\ pc' \in (IF o.fault THEN {"running", "crashed"} ELSE {"running"})
    /\ UNCHANGED <<env, glevel, log, cmd, nsFlag, resp, loggers, lastCall>>
    /\ UNCHANGED credVars
    /\ UNCHANGED watchVars
    /\ UNCHANGED workers
    /\ UNCHANGED managed
    /\ UNCHANGED sessionVars

Next ==
    \/ RunServer
    \/ HandleRequest
    \/ ReleaseCtx
    \/ RunController
    \/ ShowDeploymentStatus
    \/ RunManager
    \/ ReconcileStep

Spec == Init /\ [][Next]_vars

(***************************************************************************)
(* Reading a state.                                                        *)
(***************************************************************************)
Responded == cmd = "server" /\ pc = "responded"
IsJson == resp.body.kind = "json"
Envelope == resp.body.obj
Served(method, path) == Responded /\ req.method = method /\ req.path = path
Succeeded == IsJson /\ Envelope.success
EntriesOf(json) == IF json.kind = "array" THEN json.items ELSE <<>>
Matching(out, message) == {i \in DOMAIN out : out[i].message = message}
MatchingFor(out, message, name) ==
    {i \in Matching(out, message) : <<"deployment", name>> \in out[i].fields}

(***************************************************************************)
(* C1: every path classifies a deployment with ready count r and desired   *)
(* count d as healthy exactly when r >= d: the healthy field of GET        *)
(* /api/v1/deployments, the healthy/unhealthy tally of GET /api/v1/status, *)
(* the healthy / not healthy branch of Reconcile, and the status report of *)
(* the CLI, which warns about fewer ready replicas than desired exactly    *)
(* when r < d.  In particular r = d = 0 is healthy.                        *)
(***************************************************************************)
HealthInDeploymentsResponse ==
    (Served("GET", "/api/v1/deployments") /\ Succeeded) =>
        LET listed == calls[1].items
            entries == EntriesOf(Envelope.data.deployments)
        IN  /\ Len(entries) = Len(listed)
            /\ \A i \in DOMAIN listed :
                /\ entries[i].ready_replicas = listed[i].ready
                /\ entries[i].desired_replicas = listed[i].replicas.v
                /\ entries[i].healthy = (listed[i].ready >= listed[i].replicas.v)

HealthInStatusResponse ==
    (Served("GET", "/api/v1/status") /\ Succeeded) =>
        LET listed == calls[1].items
            good == {i \in DOMAIN listed : listed[i].ready >= listed[i].replicas.v}
        IN  /\ Envelope.data.deployments.healthy = Cardinality(good)
            /\ Envelope.data.deployments.unhealthy = Len(listed) - Cardinality(good)

HealthInReconcile ==
    (cmd = "manager" /\ req # NoRequest /\ calls # <<>> /\ calls[1].err = NilErr
        /\ ~calls[1].items[1].replicas.isNil) =>
        LET d == calls[1].items[1]
            good == d.ready >= d.replicas.v
        IN  /\ (Matching(stdout, "Deployment is healthy") # {}) = good
            /\ (Matching(stdout, "Deployment is not healthy") # {}) = ~good

HealthInCliReport ==
    (cmd = "controller" /\ pc = "informer" /\ calls[1].err = NilErr) =>
        \A i \in DOMAIN calls[1].items :
            LET d == calls[1].items[i]
                warned == MatchingFor(stdout,
                              "Deployment has fewer ready replicas than desired", d.name)
            IN  Cardinality(warned) = (IF d.ready >= d.replicas.v THEN 0 ELSE 1)

HealthSinglePredicate ==
    /\ HealthInDeploymentsResponse
    /\ HealthInStatusResponse
    /\ HealthInReconcile
    /\ HealthInCliReport

\* A deployments response that reports a deployment with 0 ready of 0 desired
\* replicas as healthy next to one with 0 of 1 as unhealthy.
HealthWitness ==
    /\ Served("GET", "/api/v1/deployments") /\ Succeeded
    /\ \E i, j \in DOMAIN EntriesOf(Envelope.data.deployments) :
        LET e == EntriesOf(Envelope.data.deployments)
        IN  /\ e[i].ready_replicas = 0 /\ e[i].desired_replicas = 0 /\ e[i].healthy
            /\ e[j].ready_replicas = 0 /\ e[j].desired_replicas = 1 /\ ~e[j].healthy

(***************************************************************************)
(* What a query value means, stated without the parser: an optional sign   *)
(* followed by one or more decimal digits denotes the number its digits    *)
(* spell.                                                                  *)
(***************************************************************************)
RECURSIVE Pow10(_)
Pow10(n) == IF n = 0 THEN 1 ELSE 10 * Pow10(n - 1)
Unsigned(s) == IF s # <<>> /\ s[1] \in {"+", "-"} THEN Tail(s) ELSE s
IsInteger(s) == Unsigned(s) # <<>> /\ \A i \in DOMAIN Unsigned(s) : Unsigned(s)[i] \in Digits
Magnitude(s) ==
    LET u == Unsigned(s)
    IN  SumOver([i \in DOMAIN u |-> DigitVal(u[i]) * Pow10(Len(u) - i)], DOMAIN u)
IsPositiveInteger(s) == IsInteger(s) /\ s[1] # "-" /\ Magnitude(s) > 0
LimitMeant(s) == IF IsPositiveInteger(s) THEN Magnitude(s) ELSE 10

(***************************************************************************)
(* C2: in GET /api/v1/events the limit passed to the event listing is the  *)
(* limit query value when that value parses as an integer greater than 0,  *)
(* and the default 10 in every other case (absent, empty, non-numeric,     *)
(* zero or negative).                                                      *)
(***************************************************************************)
EventLimitResolved ==
    (cmd = "server" /\ req # NoRequest /\ req.method = "GET" /\ req.path = "/api/v1/events") =>
        /\ Len(calls) = 1
        /\ calls[1].resource = "events"
        /\ calls[1].limit = LimitMeant(req.limit)

\* An events request with limit=+1, which is passed on as 1.
EventLimitWitness ==
    /\ Served("GET", "/api/v1/events")
    /\ req.limit = <<"+", "1">>
    /\ calls[1].limit = 1

(***************************************************************************)
(* C3: every response produced on an error path (a failed deployment,      *)
(* event, pod or service listing, or an unmatched route) has success =     *)
(* false, a non-empty error string, no data field and a 4xx/5xx status;    *)
(* every response with success = true has status 200.                      *)
(***************************************************************************)
KnownRoutes ==
    {<<"GET", "/health">>, <<"GET", "/api/v1/deployments">>,
     <<"POST", "/api/v1/deployments">>, <<"GET", "/api/v1/events">>,
     <<"GET", "/api/v1/status">>}
Unmatched == req.method # "OPTIONS" /\ <<req.method, req.path>> \notin KnownRoutes
CallFailed == \E i \in DOMAIN calls : calls[i].err # NilErr
IsFailureStatus(code) == code >= 400 /\ code <= 599

ErrorEnvelope ==
    Responded =>
        /\ (CallFailed \/ Unmatched) =>
            /\ IsJson
            /\ Envelope.success = FALSE
            /\ "error" \in DOMAIN Envelope /\ Envelope.error # ""
            /\ "data" \notin DOMAIN Envelope
            /\ IsFailureStatus(resp.status)
        /\ IsJson => (Envelope.success <=> resp.status = StatusOK)
        /\ IsJson => (~Envelope.success <=> IsFailureStatus(resp.status))

\* A status request whose pod listing failed, answered with 500.
ErrorEnvelopeWitness ==
    /\ Served("GET", "/api/v1/status")
    /\ Len(calls) = 2 /\ calls[2].err # NilErr
    /\ resp.status = StatusInternalServerError
    /\ Envelope.error = "Failed to get pods"

(***************************************************************************)
(* C4: for every request and every outcome of the cluster calls it makes,  *)
(* a listing with a deployment whose desired replica count is unset        *)
(* included, the handler finishes by writing the JSON envelope; no request *)
(* ends in an unhandled fault.                                             *)
(***************************************************************************)
NoUnhandledFault ==
    (cmd = "server" /\ req # NoRequest /\ req.method # "OPTIONS") =>
        /\ pc = "responded"
        /\ IsJson
        /\ "success" \in DOMAIN Envelope

EmptyListingIsEmptyArray ==
    (Served("GET", "/api/v1/deployments") /\ calls[1].err = NilErr /\ calls[1].items = <<>>) =>
        /\ resp.status = StatusOK
        /\ Succeeded
        /\ Envelope.data.count = 0
        /\ Envelope.data.deployments = JsonArray(<<>>)

(***************************************************************************)
(* C7: for every successful GET /api/v1/events, count equals the number of *)
(* entries in events, and that number is no greater than the effective     *)
(* limit of the request.                                                   *)
(***************************************************************************)
EventCountWithinLimit ==
    (Served("GET", "/api/v1/events") /\ Succeeded) =>
        /\ Envelope.data.count = Len(EntriesOf(Envelope.data.events))
        /\ Len(EntriesOf(Envelope.data.events)) <= LimitMeant(req.limit)

\* limit=1 on a namespace that holds more events than that.
EventCountWitness ==
    /\ Served("GET", "/api/v1/events") /\ Succeeded
    /\ req.limit = <<"1">>
    /\ calls[1].more
    /\ Envelope.data.count = 1

(***************************************************************************)
(* C8, as stated: every response, OPTIONS preflight responses and the 404  *)
(* and 500 error responses included, carries Content-Type:                 *)
(* application/json together with the three permissive CORS headers.       *)
(***************************************************************************)
HasHeader(name, value) == name \in DOMAIN resp.headers /\ resp.headers[name] = value
HasCors ==
    /\ HasHeader("Access-Control-Allow-Origin", "*")
    /\ HasHeader("Access-Control-Allow-Methods", "GET, POST, OPTIONS")
    /\ HasHeader("Access-Control-Allow-Headers", "Content-Type")

AllResponsesJsonAndCors ==
    Responded => (HasCors /\ HasHeader("Content-Type", "application/json"))

(***************************************************************************)
(* C8, amended: every response carries the three permissive CORS headers;  *)
(* every response to a request other than OPTIONS, the 404 and 500 error   *)
(* responses included, also carries Content-Type: application/json; the    *)
(* handler sets no Content-Type on an OPTIONS preflight response.          *)
(***************************************************************************)
CorsAlwaysJsonUnlessPreflight ==
    Responded =>
        /\ HasCors
        /\ req.method # "OPTIONS" => HasHeader("Content-Type", "application/json")
        /\ req.method = "OPTIONS" => "Content-Type" \notin DOMAIN resp.headers

\* A 500 response with all four headers.
HeadersWitness ==
    /\ Responded /\ resp.status = StatusInternalServerError
    /\ HasCors /\ HasHeader("Content-Type", "application/json")

(***************************************************************************)
(* C9: a GET for /static/index.html is answered with the static asset and  *)
(* does not fall through to the 404 "Endpoint not found" envelope.         *)
(***************************************************************************)
StaticDashboardServed ==
    (cmd = "server" /\ req # NoRequest /\ req.method = "GET"
        /\ req.path = "/static/index.html") =>
        /\ pc = "responded"
        /\ resp.status # StatusNotFound
        /\ ~(IsJson /\ "error" \in DOMAIN Envelope /\ Envelope.error = "Endpoint not found")

(***************************************************************************)
(* pkg/logger as a state machine: a client derives loggers from the one    *)
(* New() returned and logs through any of them.                            *)
(***************************************************************************)
MaxLoggers == 3

LogEnvValues == {"", "dev", "prod", "production", "staging"}
LogNamespaces == {"default", "prod"}
LogDeployments == {"web"}
CallKeys == {"namespace", "error"}
CallValues == {"default", "other"}
CallFields == UNION {[ks -> CallValues] : ks \in SUBSET CallKeys}
LogLevels == {DebugLevel, InfoLevel, WarnLevel, ErrorLevel, FatalLevel}

\* The orders in which a range over a map with the keys ks can visit them.
KeyOrders(ks) ==
    {o \in [1 .. Cardinality(ks) -> ks] : \A i, j \in DOMAIN o : o[i] = o[j] => i = j}

InitLog ==
    /\ env \in LogEnvValues
    /\ glevel = LevelForEnv(env)
    /\ log = NewLogger(env)
    /\ cmd = "logger"
    /\ nsFlag = "default"
    /\ pc = "ready"
    /\ req = NoRequest
    /\ resp = NoResponse
    /\ calls = <<>>
    /\ stdout = <<>>
    /\ result = NoResult
    /\ loggers = <<log>>
    /\ lastCall = NoCall
    /\ inCluster = FALSE
    /\ kubeconfig = ""
    /\ environ = DefaultEnviron
    /\ unloadable = {}
    /\ client = NoClient
    /\ NoSession
    /\ NoWatch
    /\ workers = NoWorkers
    /\ managed = NoManaged

\* l.WithNamespace(ns) on the logger number id: a new Logger value.
DeriveNamespace ==
    /\ cmd = "logger" /\ pc = "ready" /\ Len(loggers) < MaxLoggers
    /\ \E id \in DOMAIN loggers, ns \in LogNamespaces :
        /\ loggers' = Append(loggers, WithNamespace(loggers[id], ns))
        /\ lastCall' = [kind |-> "derive", logger |-> Len(loggers) + 1, parent |-> id,
                        key |-> "namespace", value |-> ns,
                        base |-> DecodeFields(loggers[id].context)]
    /\ UNCHANGED <<env, glevel, log, cmd, nsFlag, pc, req, resp, calls, stdout, result>>
    /\ UNCHANGED credVars
    /\ UNCHANGED watchVars
    /\ UNCHANGED workers
    /\ UNCHANGED managed
    /\ UNCHANGED sessionVars

\* l.WithDeployment(name) on the logger number id: a new Logger value.
DeriveDeployment ==
    /\ cmd = "logger" /\ pc = "ready" /\ Len(loggers) < MaxLoggers
    /\ \E id \in DOMAIN loggers, name \in LogDeployments :
        /\ loggers' = Append(loggers, WithDeployment(loggers[id], name))
        /\ lastCall' = [kind |-> "derive", logger |-> Len(loggers) + 1, parent |-> id,
                        key |-> "deployment", value |-> name,
                        base |-> DecodeFields(loggers[id].context)]
    /\ UNCHANGED <<env, glevel, log, cmd, nsFlag, pc, req, resp, calls, stdout, result>>
    /\ UNCHANGED credVars
    /\ UNCHANGED watchVars
    /\ UNCHANGED workers
    /\ UNCHANGED managed
    /\ UNCHANGED sessionVars

\* Debug, Info, Warn, Error or Fatal on the logger number id.  Only Error
\* and Fatal take an error.  The event is built in a buffer of its own, so
\* no Logger value changes; a Fatal event ends the process once written.
LogCall ==
    /\ cmd = "logger" /\ pc = "ready"
    /\ \E id \in DOMAIN loggers, lv \in LogLevels, fields \in CallFields :
       \E err \in (IF lv \in {ErrorLevel, FatalLevel} THEN ErrOrNil ELSE {NilErr}),
          order \in KeyOrders(DOMAIN fields) :
        /\ stdout' = Emit(loggers[id], glevel, lv, "message", err,
                          [i \in DOMAIN order |-> <<order[i], fields[order[i]]>>])
        /\ lastCall' = [kind |-> "log", logger |-> id, level |-> lv, err |-> err,
                        fields |-> fields, base |-> DecodeFields(loggers[id].context)]
        /\ pc' = IF lv = FatalLevel THEN "exited" ELSE "logged"
    /\ UNCHANGED <<env, glevel, log, cmd, nsFlag, req, resp, calls, result, loggers>>
    /\ UNCHANGED credVars
    /\ UNCHANGED watchVars
    /\ UNCHANGED workers
    /\ UNCHANGED managed
    /\ UNCHANGED sessionVars

\* The call has returned and the line has left the process.
LogReturn ==
    /\ cmd = "logger" /\ pc = "logged"
    /\ stdout' = <<>>
    /\ lastCall' = NoCall
    /\ pc' = "ready"
    /\ UNCHANGED <<env, glevel, log, cmd, nsFlag, req, resp, calls, result, loggers>>
    /\ UNCHANGED credVars
    /\ UNCHANGED watchVars
    /\ UNCHANGED workers
    /\ UNCHANGED managed
    /\ UNCHANGED sessionVars

NextLog ==
    \/ DeriveNamespace
    \/ DeriveDeployment
    \/ LogCall
    \/ LogReturn

SpecLog == InitLog /\ [][NextLog]_vars

(***************************************************************************)
(* C10: for every logger with base fields F1 and every Debug, Info, Warn   *)
(* or Error call with call-site fields F2, the emitted record has exactly  *)
(* one value per key, its keys are those of F1 and F2, the call-site value *)
(* wins on a key collision, and the logger's base fields are unchanged     *)
(* after the call.  What the call site supplies is its fields map and, for *)
(* Error, the error it passes, attached under the key error; a key error   *)
(* in the map overrides that one.                                          *)
(***************************************************************************)
PairKeys(ps) == {p[1] : p \in ps}
CallSitePairs(c) ==
    {<<k, c.fields[k]>> : k \in DOMAIN c.fields}
        \cup (IF c.err # NilErr /\ "error" \notin DOMAIN c.fields
              THEN {<<"error", c.err>>} ELSE {})

MergedFields ==
    (cmd = "logger" /\ pc = "logged" /\ stdout # <<>>) =>
        LET rec == stdout[1].fields
            F1 == lastCall.base
            F2 == CallSitePairs(lastCall)
        IN  /\ Len(stdout) = 1
            /\ \A p, q \in rec : p[1] = q[1] => p = q
            /\ PairKeys(rec) = PairKeys(F1) \cup PairKeys(F2)
            /\ F2 \subseteq rec
            /\ \A p \in F1 : p[1] \notin PairKeys(F2) => p \in rec
            /\ DecodeFields(loggers[lastCall.logger].context) = F1

\* A call-site namespace field logged through a namespace-derived logger
\* whose namespace is another one.
MergedFieldsWitness ==
    /\ cmd = "logger" /\ pc = "logged" /\ stdout # <<>>
    /\ <<"namespace", "prod">> \in lastCall.base
    /\ "namespace" \in DOMAIN lastCall.fields
    /\ lastCall.fields["namespace"] = "other"
    /\ <<"namespace", "other">> \in stdout[1].fields

(***************************************************************************)
(* C11: WithNamespace and WithDeployment return a new logger whose base    *)
(* fields are the receiver's plus the one field, a key already present     *)
(* taking the new value in the child, and they leave the receiver as it    *)
(* was; a record logged through a logger carries no field that only a      *)
(* logger derived from it added, unless the call site passes that key.     *)
(***************************************************************************)
Override(F, key, value) == {p \in F : p[1] # key} \cup {<<key, value>>}
IsProperPrefix(a, b) == Len(a) < Len(b) /\ SubSeq(b, 1, Len(a)) = a
BaseFields(id) == DecodeFields(loggers[id].context)
AddedBelow(parent, child) == PairKeys(BaseFields(child)) \ PairKeys(BaseFields(parent))

DerivationFrame ==
    /\ (cmd = "logger" /\ lastCall.kind = "derive") =>
        /\ BaseFields(lastCall.logger)
               = Override(lastCall.base, lastCall.key, lastCall.value)
        /\ BaseFields(lastCall.parent) = lastCall.base
    /\ (cmd = "logger" /\ pc = "logged" /\ stdout # <<>>) =>
        \A c \in DOMAIN loggers :
            IsProperPrefix(loggers[lastCall.logger].context, loggers[c].context) =>
                \A k \in AddedBelow(lastCall.logger, c) :
                    k \in PairKeys(stdout[1].fields) => k \in DOMAIN lastCall.fields

\* A record logged through the logger of New() after a namespace logger and
\* a deployment logger were chained from it: it has neither field.
DerivationFrameWitness ==
    /\ cmd = "logger" /\ pc = "logged" /\ stdout # <<>>
    /\ lastCall.logger = 1
    /\ \E c \in DOMAIN loggers :
        {"namespace", "deployment"} \subseteq PairKeys(BaseFields(c))
    /\ PairKeys(stdout[1].fields) \cap {"namespace", "deployment"} = {}

(***************************************************************************)
(* C12: construction gives production mode with minimum level Info for     *)
(* the values prod and production of ENV and development mode with minimum *)
(* level Debug for every other value; a Debug call emits a record exactly  *)
(* in development mode, and an Info, Warn, Error or Fatal call emits one   *)
(* in both modes.                                                          *)
(***************************************************************************)
ModeOf(e) == IF e \in {"prod", "production"} THEN "prod" ELSE "dev"

LevelsByMode ==
    /\ cmd = "logger" =>
        glevel = (IF ModeOf(env) = "prod" THEN InfoLevel ELSE DebugLevel)
    /\ (cmd = "logger" /\ lastCall.kind = "log" /\ pc \in {"logged", "exited"}) =>
        /\ (stdout # <<>>) <=> (lastCall.level # DebugLevel \/ ModeOf(env) = "dev")
        /\ stdout # <<>> =>
            Len(stdout) = 1 /\ stdout[1].level = LevelName(lastCall.level)

\* A Debug call under ENV=production, which emits nothing.
LevelsByModeWitness ==
    /\ cmd = "logger" /\ pc = "logged" /\ lastCall.kind = "log"
    /\ env = "production"
    /\ lastCall.level = DebugLevel
    /\ stdout = <<>>

(***************************************************************************)
(* C13: in production mode every emitted record is a structured (JSON)     *)
(* record with an RFC3339 timestamp, in development mode a console line    *)
(* with a short time and a level glyph.                                    *)
(***************************************************************************)
Glyphs == {"glyph-magnifier", "glyph-information", "glyph-warning", "glyph-cross",
           "glyph-skull"}

RenderingByMode ==
    cmd = "logger" =>
        \A i \in DOMAIN stdout :
            IF ModeOf(env) = "prod"
            THEN stdout[i].format = "json" /\ stdout[i].timeFormat = "RFC3339"
            ELSE /\ stdout[i].format = "console"
                 /\ stdout[i].timeFormat = "15:04:05"
                 /\ stdout[i].levelText \in Glyphs

(***************************************************************************)
(* C14: for every value of ENV, every emitted record carries the field     *)
(* service = k8s-controller and the field environment equal to the name of *)
(* the mode the logger operates in, dev or prod.                           *)
(***************************************************************************)
DefaultFieldsNameTheMode ==
    cmd = "logger" =>
        \A i \in DOMAIN stdout :
            /\ <<"service", "k8s-controller">> \in stdout[i].fields
            /\ <<"environment", ModeOf(env)>> \in stdout[i].fields

(***************************************************************************)
(* C15: a Fatal call emits its record and ends the process, so that        *)
(* nothing after it runs: once credential resolution has failed, or the    *)
(* listener could not be created, the process has exited with the fatal    *)
(* record as its last one, no cluster call is issued, no request is served *)
(* and no step of the program follows.                                     *)
(***************************************************************************)
IsFatalRecord(rec) == rec.level = LevelName(FatalLevel)
HasFatal(out) == \E i \in DOMAIN out : IsFatalRecord(out[i])

FatalEndsProcess ==
    [][/\ pc # "exited"
       /\ client'.err # NilErr => pc' = "exited"
       /\ HasFatal(stdout') =>
            /\ pc' = "exited"
            /\ IsFatalRecord(stdout'[Len(stdout')])
            /\ calls' = <<>>
            /\ req' = NoRequest]_vars

\* The controller command after a failed credential resolution.
FatalEndsProcessWitness ==
    /\ cmd = "controller" /\ pc = "exited"
    /\ client.err # NilErr
    /\ IsFatalRecord(stdout[Len(stdout)])
    /\ stdout[Len(stdout)].message = "Failed to get Kubernetes client"
    /\ calls = <<>>

(***************************************************************************)
(* Credential resolution over every setting of the in-cluster switch, the  *)
(* kubeconfig flag, KUBECONFIG and HOME, and every set of sources that do  *)
(* not load.                                                               *)
(***************************************************************************)
FlagPath == "/flag/config"
EnvPath == "/env/config"
HomeValues == {"/root", ""}
CredentialSources ==
    {InClusterSource, FlagPath, EnvPath} \cup {h \o "/.kube/config" : h \in HomeValues}

InitCred ==
    /\ env \in EnvValues
    /\ glevel = LevelForEnv(env)
    /\ log = NewLogger(env)
    /\ cmd \in {"controller", "server"}
    /\ nsFlag = "default"
    /\ pc = "start"
    /\ req = NoRequest
    /\ resp = NoResponse
    /\ calls = <<>>
    /\ stdout = <<>>
    /\ result = NoResult
    /\ loggers = <<log>>
    /\ lastCall = NoCall
    /\ inCluster \in (IF cmd = "controller" THEN BOOLEAN ELSE {FALSE})
    /\ kubeconfig \in (IF cmd = "controller" THEN {"", FlagPath} ELSE {""})
    /\ environ \in [KUBECONFIG : {"", EnvPath}, HOME : HomeValues]
    /\ unloadable \in SUBSET CredentialSources
    /\ client = NoClient
    /\ NoSession
    /\ NoWatch
    /\ workers = NoWorkers
    /\ managed = NoManaged

NextCred ==
    \/ RunController
    \/ RunServer

SpecCred == InitCred /\ [][NextCred]_vars

(***************************************************************************)
(* C16: credential resolution uses exactly one source per call: with the   *)
(* in-cluster switch it loads the in-cluster credentials and consults      *)
(* neither the kubeconfig flag nor KUBECONFIG nor HOME; otherwise the path *)
(* is the flag if non-empty, else KUBECONFIG if non-empty, else            *)
(* $HOME/.kube/config, and nothing of lower precedence is consulted.  A    *)
(* source that does not load gives an error and no other source is tried.  *)
(***************************************************************************)
ChosenSource ==
    IF inCluster THEN InClusterSource
    ELSE IF kubeconfig # "" THEN kubeconfig
    ELSE IF environ.KUBECONFIG # "" THEN environ.KUBECONFIG
    ELSE environ.HOME \o "/.kube/config"

Consulted(op) == {client.reads[i].name : i \in {j \in DOMAIN client.reads :
                                                   client.reads[j].op = op}}
LoadCount == Cardinality({i \in DOMAIN client.reads : client.reads[i].op = "load"})

OneCredentialSource ==
    (cmd \in {"controller", "server"} /\ pc # "start") =>
        /\ LoadCount = 1
        /\ Consulted("load") = {ChosenSource}
        /\ inCluster => Consulted("flag") = {} /\ Consulted("getenv") = {}
        /\ (~inCluster /\ kubeconfig # "") => Consulted("getenv") = {}
        /\ (~inCluster /\ kubeconfig = "" /\ environ.KUBECONFIG # "") =>
                Consulted("getenv") = {"KUBECONFIG"}
        /\ ChosenSource \in unloadable =>
                client.err # NilErr /\ client.clientset = NoClientset
        /\ client.err = NilErr =>
                /\ ChosenSource \notin unloadable
                /\ client.clientset.kind = "clientset"
                /\ client.clientset.source
                        = (IF inCluster THEN "in-cluster" ELSE "kubeconfig")
                /\ ~inCluster => client.clientset.path = ChosenSource

\* KUBECONFIG names a file that does not load while the home default and
\* the in-cluster credentials would: the resolution fails.
OneCredentialSourceWitness ==
    /\ cmd = "controller" /\ pc = "exited"
    /\ ~inCluster /\ kubeconfig = "" /\ environ.KUBECONFIG = EnvPath
    /\ unloadable = {EnvPath}
    /\ client.err # NilErr
    /\ Consulted("load") = {EnvPath}

(***************************************************************************)
(* cmd/controller.go: watchDeploymentsWithInformer.  The main goroutine    *)
(* starts the factory and waits; the reflector of the informer lists and   *)
(* watches the deployments and fills the cache; the listener hands the     *)
(* queued notifications to the registered handler, one at a time.          *)
(***************************************************************************)
MaxPending == 2

InSession == cmd = "controller" /\ pc \in {"syncing", "synced"}
Present(c) == {i \in DOMAIN WatchedNames : c[i] # Absent}

\* What a watch event that turns the cached object old into new gives.
WatchNotification(i, old, new) ==
    CASE new = Absent -> Notification("delete", WatchedNames[i], old, Absent, FALSE)
      [] old = Absent /\ new # Absent -> Notification("add", WatchedNames[i], Absent, new, FALSE)
      [] OTHER -> Notification("update", WatchedNames[i], old, new, FALSE)

\* What replacing the cache s by the listing c gives: an update for every
\* listed object the cache has, an add for every other listed object, then
\* a delete carrying a tombstone for every cached object that is not listed.
ReplaceNotifications(s, c) ==
    LET RECURSIVE Upserts(_)
        Upserts(i) ==
            IF i > Len(WatchedNames) THEN <<>>
            ELSE (IF c[i] = Absent THEN <<>> ELSE <<WatchNotification(i, s[i], c[i])>>)
                    \o Upserts(i + 1)
        RECURSIVE Deletes(_)
        Deletes(i) ==
            IF i > Len(WatchedNames) THEN <<>>
            ELSE (IF s[i] # Absent /\ c[i] = Absent
                  THEN <<Notification("delete", WatchedNames[i], s[i], Absent, TRUE)>>
                  ELSE <<>>) \o Deletes(i + 1)
    IN  Upserts(1) \o Deletes(1)

\* The periodic resync: an update with old = new for every cached object.
ResyncNotifications(s) ==
    LET RECURSIVE From(_)
        From(i) == IF i > Len(WatchedNames) THEN <<>>
                   ELSE (IF s[i] = Absent THEN <<>>
                         ELSE <<Notification("update", WatchedNames[i], s[i], s[i], FALSE)>>)
                            \o From(i + 1)
    IN  From(1)

\* A call of the reflector as the program sees it: the objects it returns
\* go to the cache, not to the program.
ReflectorCall(verb, ns, err) ==
    [verb |-> verb, resource |-> "deployments", namespace |-> ns, err |-> err]

\* The handler that takes the newest queued notification first.
NextNotificationNewest(queue) == Len(queue)

\* The listener delivers the notifications in the order they were queued
\* and the handlers run in its goroutine, each to its end.
NextNotification(queue) == 1

Without(queue, k) == SubSeq(queue, 1, k - 1) \o SubSeq(queue, k + 1, Len(queue))
IndexOfName(name) == CHOOSE i \in DOMAIN WatchedNames : WatchedNames[i] = name

InitInformer ==
    /\ Init
    /\ cmd = "controller"
    /\ nsFlag = "default"
    /\ unloadable = {}

\* watchDeploymentsWithInformer up to factory.WaitForCacheSync.
StartInformer ==
    /\ cmd = "controller" /\ pc = "informer"
    /\ cluster' \in ClusterStates(nsFlag)
    /\ LET nsLogger == WithNamespace(log, nsFlag)
       IN  stdout' = Emit(nsLogger, glevel, InfoLevel, "Starting deployment informer",
                          NilErr, << <<"namespace", nsFlag>> >>)
                        \o StdoutLine("Starting deployment informer... (Press Ctrl+C to stop)",
                                      <<>>)
                        \o Emit(nsLogger, glevel, InfoLevel, "Starting informer factory",
                                NilErr, <<>>)
                        \o Emit(nsLogger, glevel, InfoLevel, "Waiting for cache sync",
                                NilErr, <<>>)
    /\ calls' = <<>>
    /\ pc' = "syncing"
    /\ UNCHANGED <<env, glevel, log, cmd, nsFlag, req, resp, result, loggers, lastCall>>
    /\ UNCHANGED credVars
    /\ UNCHANGED watchVars
    /\ UNCHANGED workers
    /\ UNCHANGED managed
    /\ UNCHANGED fifo
    /\ UNCHANGED <<ctxDone, signal, store, hasSynced, listFailed, pending, inCallback,
                   handled>>

\* The reflector of the informer makes its first list call.  A failed call
\* is made again after a back-off; a successful one puts the listing in the
\* informer's queue, an add for every object, and is followed by the watch.
\* The cache has synced once the whole listing has been popped.
InformerList ==
    /\ InSession /\ ~inCallback /\ ~hasSynced /\ fifo = <<>>
    /\ \E err \in ErrOrNil :
        IF err # NilErr
        THEN /\ listFailed' = TRUE
             /\ calls' = <<ReflectorCall("list", nsFlag, err)>>
             /\ UNCHANGED <<hasSynced, fifo>>
        ELSE /\ fifo' = ReplaceNotifications(store, cluster)
             /\ hasSynced' = (fifo' = <<>>)
             /\ calls' = <<ReflectorCall("list", nsFlag, NilErr),
                           ReflectorCall("watch", nsFlag, NilErr)>>
             /\ UNCHANGED listFailed
    /\ UNCHANGED <<env, glevel, log, cmd, nsFlag, pc, req, resp, stdout, result, loggers,
                   lastCall>>
    /\ UNCHANGED credVars
    /\ UNCHANGED watchVars
    /\ UNCHANGED workers
    /\ UNCHANGED managed
    /\ UNCHANGED <<ctxDone, signal, cluster, store, pending, inCallback, handled>>

\* The informer pops one object of the initial listing from its queue: the
\* object goes to the cache and its add is queued for the handler, which
\* runs in a goroutine of its own.
PopInitial ==
    /\ InSession /\ ~inCallback /\ fifo # <<>>
    /\ Len(pending) < MaxPending
    /\ LET n == Head(fifo)
       IN  /\ store' = [store EXCEPT ![IndexOfName(n.name)] = n.new]
           /\ pending' = Append(pending, n)
           /\ fifo' = Tail(fifo)
           /\ hasSynced' = (Tail(fifo) = <<>>)
    /\ UNCHANGED <<env, glevel, log, cmd, nsFlag, pc, req, resp, calls, stdout, result,
                   loggers, lastCall>>
    /\ UNCHANGED credVars
    /\ UNCHANGED watchVars
    /\ UNCHANGED workers
    /\ UNCHANGED managed
    /\ UNCHANGED <<ctxDone, signal, cluster, listFailed, inCallback, handled>>

\* Someone creates, changes or deletes a deployment.  Once the watch is
\* open the reflector receives the event, updates the cache and queues the
\* notification.
ClusterChange ==
    /\ InSession /\ ~inCallback /\ fifo = <<>>
    /\ \E i \in DOMAIN WatchedNames :
       \E v \in WatchedObjects(nsFlag, i) \cup {Absent} :
        /\ v # cluster[i]
        /\ cluster' = [cluster EXCEPT ![i] = v]
        /\ IF hasSynced
           THEN /\ Len(pending) < MaxPending
                /\ store' = [store EXCEPT ![i] = v]
                /\ pending' = Append(pending, WatchNotification(i, store[i], v))
           ELSE UNCHANGED <<store, pending>>
    /\ UNCHANGED <<env, glevel, log, cmd, nsFlag, pc, req, resp, calls, stdout, result,
                   loggers, lastCall>>
    /\ UNCHANGED credVars
    /\ UNCHANGED watchVars
    /\ UNCHANGED workers
    /\ UNCHANGED managed
    /\ UNCHANGED fifo
    /\ UNCHANGED <<ctxDone, signal, hasSynced, listFailed, inCallback, handled>>

\* The watch of the reflector ends, the deployments change unseen, and the
\* reflector lists again and replaces the cache by the listing.
Relist ==
    /\ InSession /\ ~inCallback /\ hasSynced
    /\ \E c \in ClusterStates(nsFlag) :
        LET ns == ReplaceNotifications(store, c)
        IN  /\ Len(pending) + Len(ns) <= MaxPending
            /\ cluster' = c
            /\ store' = c
            /\ pending' = pending \o ns
    /\ UNCHANGED <<env, glevel, log, cmd, nsFlag, pc, req, resp, calls, stdout, result,
                   loggers, lastCall>>
    /\ UNCHANGED credVars
    /\ UNCHANGED watchVars
    /\ UNCHANGED workers
    /\ UNCHANGED managed
    /\ UNCHANGED fifo
    /\ UNCHANGED <<ctxDone, signal, hasSynced, listFailed, inCallback, handled>>

\* The resync period of the factory (30 seconds) has passed.
Resync ==
    /\ InSession /\ ~inCallback /\ hasSynced
    /\ Present(store) # {}
    /\ Len(pending) + Cardinality(Present(store)) <= MaxPending
    /\ pending' = pending \o ResyncNotifications(store)
    /\ UNCHANGED <<env, glevel, log, cmd, nsFlag, pc, req, resp, calls, stdout, result,
                   loggers, lastCall>>
    /\ UNCHANGED credVars
    /\ UNCHANGED watchVars
    /\ UNCHANGED workers
    /\ UNCHANGED managed
    /\ UNCHANGED fifo
    /\ UNCHANGED <<ctxDone, signal, cluster, store, hasSynced, listFailed, inCallback,
                   handled>>

\* The listener calls the handler on the next notification.  A panic in a
\* handler is re-raised by the listener and ends the process.
HandleNotification ==
    /\ InSession /\ ~inCallback /\ pending # <<>>
    /\ LET k == NextNotification(pending)
           n == pending[k]
           o == OnNotification(n, WithNamespace(log, nsFlag), glevel)
       IN  /\ pending' = Without(pending, k)
           /\ stdout' = o.out
           /\ IF o.fault
              THEN pc' = "crashed" /\ UNCHANGED <<inCallback, handled>>
              ELSE /\ handled' = [handled EXCEPT ![IndexOfName(n.name)] = n.type]
                   /\ inCallback' = TRUE
                   /\ UNCHANGED pc
    /\ UNCHANGED <<env, glevel, log, cmd, nsFlag, req, resp, calls, result, loggers, lastCall>>
    /\ UNCHANGED credVars
    /\ UNCHANGED watchVars
    /\ UNCHANGED workers
    /\ UNCHANGED managed
    /\ UNCHANGED fifo
    /\ UNCHANGED <<ctxDone, signal, cluster, store, hasSynced, listFailed>>

\* The handler has returned and its output has left the process.
CallbackReturns ==
    /\ InSession /\ inCallback
    /\ inCallback' = FALSE
    /\ stdout' = <<>>
    /\ UNCHANGED <<env, glevel, log, cmd, nsFlag, pc, req, resp, calls, result, loggers,
                   lastCall>>
    /\ UNCHANGED credVars
    /\ UNCHANGED watchVars
    /\ UNCHANGED workers
    /\ UNCHANGED managed
    /\ UNCHANGED fifo
    /\ UNCHANGED <<ctxDone, signal, cluster, store, hasSynced, listFailed, pending, handled>>

\* The main goroutine comes back from a wait: from factory.WaitForCacheSync,
\* which returns once the cache has synced or the stop channel ctx.Done() is
\* closed, and from <-ctx.Done().  Nothing but the deferred cancel closes
\* that channel.
InformerWait ==
    /\ InSession /\ ~inCallback
    /\ IF pc = "syncing" THEN hasSynced \/ ctxDone ELSE ctxDone
    /\ LET nsLogger == WithNamespace(log, nsFlag)
       IN  IF pc = "syncing"
           THEN IF hasSynced
                THEN /\ stdout' = Emit(nsLogger, glevel, InfoLevel,
                                       "Informer cache synced successfully", NilErr, <<>>)
                                    \o StdoutLine("Informer cache synced. Watching for deployment events...",
                                                  <<>>)
                     /\ pc' = "synced"
                ELSE /\ stdout' = Emit(nsLogger, glevel, ErrorLevel,
                                       "Failed to sync informer",
                                       "sync failed for *v1.Deployment", <<>>)
                     /\ pc' = "exited"
           ELSE /\ stdout' = Emit(nsLogger, glevel, InfoLevel, "Informer stopped",
                                  NilErr, <<>>)
                /\ pc' = "stopped"
    /\ UNCHANGED <<env, glevel, log, cmd, nsFlag, req, resp, calls, result, loggers, lastCall>>
    /\ UNCHANGED credVars
    /\ UNCHANGED watchVars
    /\ UNCHANGED workers
    /\ UNCHANGED managed
    /\ UNCHANGED sessionVars

\* SIGINT reaches the process.  The command installs no handler for it, so
\* the Go runtime ends the process at once: no deferred call runs and
\* nothing is logged.
Interrupt ==
    /\ InSession /\ signal = "none"
    /\ signal' = pc
    /\ pc' = "killed"
    /\ UNCHANGED <<env, glevel, log, cmd, nsFlag, req, resp, calls, stdout, result, loggers,
                   lastCall>>
    /\ UNCHANGED credVars
    /\ UNCHANGED watchVars
    /\ UNCHANGED workers
    /\ UNCHANGED managed
    /\ UNCHANGED fifo
    /\ UNCHANGED <<ctxDone, cluster, store, hasSynced, listFailed, pending, inCallback,
                   handled>>

NextInformer ==
    \/ RunController
    \/ ShowDeploymentStatus
    \/ StartInformer
    \/ InformerList
    \/ PopInitial
    \/ ClusterChange
    \/ Relist
    \/ Resync
    \/ HandleNotification
    \/ CallbackReturns
    \/ InformerWait
    \/ Interrupt

SpecInformer == InitInformer /\ [][NextInformer]_vars

(***************************************************************************)
(* cmd/controller.go, the command with the --watch flag: runController     *)
(* either reports once or watches the deployments on a raw watch.          *)
(***************************************************************************)
MaxStream == 2

ChangeTypes == {"ADDED", "MODIFIED", "DELETED"}
ChangeEvents(ns) ==
    {WatchEvent(t, d) : t \in ChangeTypes,
                        d \in UNION {WatchedObjects(ns, i) : i \in DOMAIN WatchedNames}}
ErrorEvent == WatchEvent("ERROR", StatusObject)

\* The streams a watch can deliver before its channel is closed: the error
\* event, when there is one, is the last event.
Streams(ns) ==
    {s \in SeqsUpTo(ChangeEvents(ns) \cup {ErrorEvent}, MaxStream) :
        \A i \in DOMAIN s : s[i] = ErrorEvent => i = Len(s)}

WatchCall(ns, err) ==
    [verb |-> "watch", resource |-> "deployments", namespace |-> ns, err |-> err]

InitWatch ==
    /\ env \in EnvValues
    /\ glevel = LevelForEnv(env)
    /\ log = NewLogger(env)
    /\ cmd = "controller"
    /\ nsFlag = "default"
    /\ pc = "start"
    /\ req = NoRequest
    /\ resp = NoResponse
    /\ calls = <<>>
    /\ stdout = <<>>
    /\ result = NoResult
    /\ loggers = <<log>>
    /\ lastCall = NoCall
    /\ inCluster = FALSE
    /\ kubeconfig = ""
    /\ environ = DefaultEnviron
    /\ unloadable \in {{}, {HomeKubeconfig}}
    /\ client = NoClient
    /\ NoSession
    /\ watch \in BOOLEAN
    /\ watcher = NoWatcher
    /\ workers = NoWorkers
    /\ managed = NoManaged

\* runController of this command up to the branch on the watch flag.
RunControllerWatchFlag ==
    /\ cmd = "controller" /\ pc = "start"
    /\ \E newErr \in ErrOrNil :
        LET out1 == Emit(WithNamespace(log, nsFlag), glevel, InfoLevel,
                         "Starting Kubernetes Controller", NilErr,
                         << <<"namespace", nsFlag>>, <<"watch_mode", watch>> >>)
            c == getKubernetesClientKubeconfigOnly(kubeconfig, environ, unloadable, newErr,
                                                   log, glevel)
            f == Fatal(log, glevel, "Failed to get Kubernetes client", c.err,
                       << <<"namespace", nsFlag>> >>)
            then == IF watch THEN "watch" ELSE "report"
        IN  /\ client' = [clientset |-> c.clientset, err |-> c.err, reads |-> c.reads]
            /\ IF c.err # NilErr
               THEN /\ stdout' = out1 \o c.out \o f.out
                    /\ pc' = IF f.exit THEN "exited" ELSE then
               ELSE /\ stdout' = out1 \o c.out
                    /\ pc' = then
    /\ UNCHANGED <<env, glevel, log, cmd, nsFlag, req, resp, calls, result, loggers, lastCall>>
    /\ UNCHANGED flagVars
    /\ UNCHANGED sessionVars
    /\ UNCHANGED watchVars
    /\ UNCHANGED workers
    /\ UNCHANGED managed

\* showDeploymentStatus(clientset, namespaceLogger), after which
\* runController returns.
ShowDeploymentStatusOnly ==
    /\ cmd = "controller" /\ pc = "report"
    /\ \E depErr \in ErrOrNil, evErr \in ErrOrNil :
       \E deps \in ListsOr(TRUE, depErr, DeploymentLists(nsFlag)),
          events \in ListsOr(TRUE, evErr, EventLists) :
        LET o == showDeploymentStatus(nsFlag, WithNamespace(log, nsFlag), glevel,
                                      depErr, deps, evErr, events)
        IN  /\ calls' = o.calls
            /\ stdout' = o.out
            /\ pc' = IF o.fault THEN "crashed" ELSE "returned"
    /\ UNCHANGED <<env, glevel, log, cmd, nsFlag, req, resp, result, loggers, lastCall>>
    /\ UNCHANGED credVars
    /\ UNCHANGED sessionVars
    /\ UNCHANGED watchVars
    /\ UNCHANGED workers
    /\ UNCHANGED managed

\* watchDeployments up to the range loop: the Watch call opens the stream.
OpenWatch ==
    /\ cmd = "controller" /\ pc = "watch"
    /\ \E err \in ErrOrNil, s \in Streams(nsFlag) :
        LET nsLogger == WithNamespace(log, nsFlag)
            out1 == Emit(nsLogger, glevel, InfoLevel, "Starting deployment watcher", NilErr,
                         << <<"watch_mode", TRUE>> >>)
                       \o StdoutLine("Watching deployments for changes... (Press Ctrl+C to stop)",
                                     <<>>)
        IN  /\ calls' = <<WatchCall(nsFlag, err)>>
            /\ IF err # NilErr
               THEN /\ s = <<>>
                    /\ stdout' = out1 \o Emit(nsLogger, glevel, ErrorLevel,
                                              "Failed to create deployment watcher", err, <<>>)
                    /\ watcher' = [opens |-> watcher.opens + 1, state |-> "failed",
                                   ch |-> <<>>]
                    /\ pc' = "returned"
               ELSE /\ stdout' = out1 \o Emit(nsLogger, glevel, InfoLevel,
                                              "Deployment watcher started successfully",
                                              NilErr, <<>>)
                    /\ watcher' = [opens |-> watcher.opens + 1, state |-> "open", ch |-> s]
                    /\ pc' = "watching"
    /\ UNCHANGED <<env, glevel, log, cmd, nsFlag, req, resp, result, loggers, lastCall>>
    /\ UNCHANGED credVars
    /\ UNCHANGED sessionVars
    /\ UNCHANGED watch
    /\ UNCHANGED workers
    /\ UNCHANGED managed

\* One turn of the range loop: the next event of the channel.  A panic in
\* the body ends the process; the deferred watcher.Stop() runs first.
ReceiveEvent ==
    /\ cmd = "controller" /\ pc = "watching"
    /\ watcher.ch # <<>>
    /\ LET o == WatchLoopBody(Head(watcher.ch), WithNamespace(log, nsFlag), glevel)
       IN  /\ stdout' = o.out
           /\ calls' = <<>>
           /\ IF o.fault
              THEN /\ pc' = "crashed"
                   /\ watcher' = [watcher EXCEPT !.ch = Tail(@), !.state = "stopped"]
              ELSE /\ pc' = pc
                   /\ watcher' = [watcher EXCEPT !.ch = Tail(@)]
    /\ UNCHANGED <<env, glevel, log, cmd, nsFlag, req, resp, result, loggers, lastCall>>
    /\ UNCHANGED credVars
    /\ UNCHANGED sessionVars
    /\ UNCHANGED watch
    /\ UNCHANGED workers
    /\ UNCHANGED managed

\* The channel is closed: the range loop ends, watcher.Stop() runs and
\* watchDeployments returns without a word.
WatchReturns ==
    /\ cmd = "controller" /\ pc = "watching"
    /\ watcher.ch = <<>>
    /\ watcher' = [watcher EXCEPT !.state = "stopped"]
    /\ stdout' = <<>>
    /\ calls' = <<>>
    /\ pc' = "returned"
    /\ UNCHANGED <<env, glevel, log, cmd, nsFlag, req, resp, result, loggers, lastCall>>
    /\ UNCHANGED credVars
    /\ UNCHANGED sessionVars
    /\ UNCHANGED watch
    /\ UNCHANGED workers
    /\ UNCHANGED managed

NextWatch ==
    \/ RunControllerWatchFlag
    \/ ShowDeploymentStatusOnly
    \/ OpenWatch
    \/ ReceiveEvent
    \/ WatchReturns

SpecWatch == InitWatch /\ [][NextWatch]_vars

(***************************************************************************)
(* cmd/manager.go: the manager's controller and its work queue.  The       *)
(* controller built by SetupWithManager queues a request for every         *)
(* deployment it lists at start and for every change of one, hands the     *)
(* queued requests to Reconcile one at a time, and reads what Reconcile    *)
(* returns: an error queues the request again after a back-off, a requeue  *)
(* interval after that interval, and anything else forgets the request.    *)
(***************************************************************************)
ManagedStates ==
    [ReconcileRequests -> {[exists |-> FALSE, due |-> "none"],
                           [exists |-> TRUE, due |-> "queued"]}]

\* What the controller does with the request once Reconcile has returned.
AfterReconcile(o) ==
    IF o.err # NilErr THEN "backoff"
    ELSE IF o.requeueAfter > 0 THEN "timer"
    ELSE "none"

InitManager ==
    /\ env \in EnvValues
    /\ glevel = LevelForEnv(env)
    /\ log = NewLogger(env)
    /\ cmd = "manager"
    /\ nsFlag = "default"
    /\ pc = "start"
    /\ req = NoRequest
    /\ resp = NoResponse
    /\ calls = <<>>
    /\ stdout = <<>>
    /\ result = NoResult
    /\ loggers = <<log>>
    /\ lastCall = NoCall
    /\ inCluster = FALSE
    /\ kubeconfig = ""
    /\ environ = DefaultEnviron
    /\ unloadable = {}
    /\ client = NoClient
    /\ NoSession
    /\ NoWatch
    /\ workers = NoWorkers
    /\ managed \in ManagedStates

\* Someone creates, changes or deletes the deployment of a request: the
\* controller's watch queues the request.
DeploymentChange(r) ==
    /\ cmd = "manager" /\ pc = "running"
    /\ \E e \in BOOLEAN :
        /\ e \/ managed[r].exists
        /\ managed' = [managed EXCEPT ![r] = [exists |-> e, due |-> "queued"]]
    /\ UNCHANGED <<env, glevel, log, cmd, nsFlag, pc, req, resp, calls, stdout, result,
                   loggers, lastCall>>
    /\ UNCHANGED credVars
    /\ UNCHANGED sessionVars
    /\ UNCHANGED watchVars
    /\ UNCHANGED workers

\* The worker takes a queued request and calls Reconcile.  The Get finds a
\* deployment that exists unless the call fails.
ReconcileQueued(r) ==
    /\ cmd = "manager" /\ pc = "running"
    /\ managed[r].due = "queued"
    /\ \E err \in (IF managed[r].exists THEN {NilErr} ELSE {"not found"}) \cup ListErrors :
       \E ready \in ReplicaCounts, replicas \in ReplicaCounts :
        LET o == Reconcile(r, log, glevel,
                           [err |-> err,
                            obj |-> DeploymentObject(r.namespace, 1,
                                                     IF err = NilErr THEN ready ELSE 0,
                                                     IF err = NilErr THEN Ptr(replicas)
                                                     ELSE NilPtr)])
        IN  /\ err = NilErr \/ (ready = 0 /\ replicas = 0)
            /\ req' = r
            /\ result' = [requeueAfter |-> o.requeueAfter, err |-> o.err]
            /\ calls' = o.calls
            /\ stdout' = o.out
            /\ managed' = [managed EXCEPT ![r].due = AfterReconcile(o)]
            /\ pc' = "reconciled"
    /\ UNCHANGED <<env, glevel, log, cmd, nsFlag, resp, loggers, lastCall>>
    /\ UNCHANGED credVars
    /\ UNCHANGED sessionVars
    /\ UNCHANGED watchVars
    /\ UNCHANGED workers

\* Reconcile has returned and its records have left the process.
WorkerDone ==
    /\ cmd = "manager" /\ pc = "reconciled"
    /\ pc' = "running"
    /\ stdout' = <<>>
    /\ calls' = <<>>
    /\ UNCHANGED <<env, glevel, log, cmd, nsFlag, req, resp, result, loggers, lastCall>>
    /\ UNCHANGED credVars
    /\ UNCHANGED sessionVars
    /\ UNCHANGED watchVars
    /\ UNCHANGED workers
    /\ UNCHANGED managed

\* The back-off or the requeue interval of a request has passed.
RequeueTimer(r) ==
    /\ cmd = "manager" /\ pc \in {"running", "reconciled"}
    /\ managed[r].due \in {"timer", "backoff"}
    /\ managed' = [managed EXCEPT ![r].due = "queued"]
    /\ UNCHANGED <<env, glevel, log, cmd, nsFlag, pc, req, resp, calls, stdout, result,
                   loggers, lastCall>>
    /\ UNCHANGED credVars
    /\ UNCHANGED sessionVars
    /\ UNCHANGED watchVars
    /\ UNCHANGED workers

NextManager ==
    \/ RunManager
    \/ \E r \in ReconcileRequests : DeploymentChange(r)
    \/ \E r \in ReconcileRequests : ReconcileQueued(r)
    \/ WorkerDone
    \/ \E r \in ReconcileRequests : RequeueTimer(r)

\* The work queue is first in, first out, so that a queued request is
\* handed to Reconcile; timers fire; the worker returns.
FairManager ==
    /\ WF_vars(RunManager)
    /\ WF_vars(WorkerDone)
    /\ \A r \in ReconcileRequests :
        /\ SF_vars(ReconcileQueued(r))
        /\ WF_vars(RequeueTimer(r))

SpecManager == InitManager /\ [][NextManager]_vars /\ FairManager

(***************************************************************************)
(* cmd/server.go: requests served concurrently.  fasthttp runs the handler *)
(* of createHandler for every request in a goroutine of its own; between   *)
(* its reading of the query, its list call and its writing of the          *)
(* response the handlers of other requests may run.                        *)
(***************************************************************************)
ServedPaths == {"/api/v1/deployments", "/api/v1/events"}
ServedLimits(path) == IF path = "/api/v1/events" THEN {<<>>, <<"1">>} ELSE {<<>>}

\* What a list call of a handler can find in a namespace.
Prefixes(s) == {SubSeq(s, 1, n) : n \in 0 .. Len(s)}
ServedListings(path, ns) ==
    IF path = "/api/v1/deployments"
    THEN Prefixes(<<DeploymentObject(ns, 1, 1, Ptr(1)), DeploymentObject(ns, 2, 0, Ptr(1))>>)
    ELSE Prefixes(<<EventObject(1, "Normal"), EventObject(2, "Warning")>>)

\* The handlers with namespace assigned to the package-level variable of
\* cmd/controller.go instead of declared.
NamespaceVarPackage(w) == "package"

\* namespace := string(ctx.QueryArgs().Peek("namespace")): the short
\* variable declaration makes namespace a local of the call that worker w
\* runs, which hides the package-level variable of the same name.
NamespaceVar(w) == w

ReadNamespace(cell) == IF cell = "package" THEN nsFlag ELSE workers[cell].namespace

InitServe ==
    /\ Init
    /\ cmd = "server"
    /\ unloadable = {}

\* A worker takes a request and its handler reads the namespace parameter.
AcceptRequest(w) ==
    /\ cmd = "server" /\ pc = "serving"
    /\ workers[w].pc = "idle"
    /\ \E path \in ServedPaths :
       \E namespace \in QueryNamespaces, limit \in ServedLimits(path) :
        LET r == HttpRequest("GET", path, namespace, limit)
            busy == [pc |-> "parsed", req |-> r, namespace |-> "", read |-> NoCall,
                     resp |-> NoResponse]
        IN  IF NamespaceVar(w) = "package"
            THEN /\ nsFlag' = NamespaceOf(namespace)
                 /\ workers' = [workers EXCEPT ![w] = busy]
            ELSE /\ nsFlag' = nsFlag
                 /\ workers' = [workers EXCEPT ![w] =
                                    [busy EXCEPT !.namespace = NamespaceOf(namespace)]]
    /\ UNCHANGED <<env, glevel, log, cmd, pc, req, resp, calls, stdout, result, loggers,
                   lastCall>>
    /\ UNCHANGED credVars
    /\ UNCHANGED sessionVars
    /\ UNCHANGED watchVars
    /\ UNCHANGED managed

\* The handler's list call: Deployments(namespace).List or
\* Events(namespace).List on the shared clientset.
ListForRequest(w) ==
    /\ cmd = "server" /\ pc = "serving"
    /\ workers[w].pc = "parsed"
    /\ LET r == workers[w].req
           ns == ReadNamespace(NamespaceVar(w))
       IN  \E err \in ErrOrNil :
           \E avail \in (IF err = NilErr THEN ServedListings(r.path, ns) ELSE {<<>>}) :
            LET call == IF r.path = "/api/v1/deployments"
                        THEN ListCall("deployments", ns, 0, err, avail)
                        ELSE ListCall("events", ns, EventsListLimit(EffectiveLimit(r.limit)),
                                      err, avail)
            IN  /\ workers' = [workers EXCEPT ![w].pc = "listed", ![w].read = call]
                /\ calls' = <<call>>
    /\ UNCHANGED <<env, glevel, log, cmd, nsFlag, pc, req, resp, stdout, result, loggers,
                   lastCall>>
    /\ UNCHANGED credVars
    /\ UNCHANGED sessionVars
    /\ UNCHANGED watchVars
    /\ UNCHANGED managed

\* The handler builds the response from what it has read and writes it.
RespondToRequest(w) ==
    /\ cmd = "server" /\ pc = "serving"
    /\ workers[w].pc = "listed"
    /\ LET r == workers[w].req
           read == workers[w].read
           ns == ReadNamespace(NamespaceVar(w))
           o == createHandler([r EXCEPT !.namespace = ns], log, glevel,
                              [depErr |-> read.err, deps |-> read.items,
                               podErr |-> NilErr, pods |-> <<>>,
                               svcErr |-> NilErr, svcs |-> <<>>,
                               evErr |-> read.err, events |-> read.items])
       IN  /\ workers' = [workers EXCEPT ![w].pc = "responded",
                                         ![w].resp = [status |-> o.status,
                                                      headers |-> o.headers,
                                                      body |-> o.body]]
           /\ stdout' = o.out
    /\ UNCHANGED <<env, glevel, log, cmd, nsFlag, pc, req, resp, calls, result, loggers,
                   lastCall>>
    /\ UNCHANGED credVars
    /\ UNCHANGED sessionVars
    /\ UNCHANGED watchVars
    /\ UNCHANGED managed

\* The response is sent and the worker is free for the next request.
ReleaseWorker(w) ==
    /\ cmd = "server" /\ pc = "serving"
    /\ workers[w].pc = "responded"
    /\ workers' = [workers EXCEPT ![w] = IdleWorker]
    /\ stdout' = <<>>
    /\ calls' = <<>>
    /\ UNCHANGED <<env, glevel, log, cmd, nsFlag, pc, req, resp, result, loggers, lastCall>>
    /\ UNCHANGED credVars
    /\ UNCHANGED sessionVars
    /\ UNCHANGED watchVars
    /\ UNCHANGED managed

NextServe ==
    \/ RunServer
    \/ \E w \in WorkerIds : AcceptRequest(w)
    \/ \E w \in WorkerIds : ListForRequest(w)
    \/ \E w \in WorkerIds : RespondToRequest(w)
    \/ \E w \in WorkerIds : ReleaseWorker(w)

SpecServe == InitServe /\ [][NextServe]_vars

(***************************************************************************)
(* Reading a state of the informer session.                                *)
(***************************************************************************)
Ended == pc \in {"stopped", "exited", "killed", "crashed"}
Logged(message) == \E i \in DOMAIN stdout : stdout[i].message = message
StoppedCleanly == pc = "stopped" /\ ctxDone /\ Logged("Informer stopped")
NoCallbackAfterSignal ==
    [][signal # "none" => (handled' = handled /\ ~inCallback')]_vars

(***************************************************************************)
(* C17: if the initial cache sync of the deployment informer does not      *)
(* complete, the engine logs an error record and the process exits with a  *)
(* failure status: after a failed sync the session never reaches Synced,   *)
(* the record 'Informer cache synced successfully' is never emitted and    *)
(* the sync is not tried again.                                            *)
(***************************************************************************)
SyncFailureIsFinal ==
    (cmd = "controller" /\ listFailed) =>
        /\ ~hasSynced
        /\ pc # "synced"
        /\ ~Logged("Informer cache synced successfully")

(***************************************************************************)
(* C18: if the cancellation signal is raised while the informer session is *)
(* in Syncing, the session ends in Terminated, the clean shutdown that     *)
(* logs 'Informer stopped', and no add, update or delete callback fires    *)
(* after the signal.                                                       *)
(***************************************************************************)
CancelWhileSyncingTerminates ==
    /\ [](cmd = "controller" /\ signal = "syncing" /\ Ended => StoppedCleanly)
    /\ NoCallbackAfterSignal

(***************************************************************************)
(* C19: once the session is Synced, an external cancellation signal        *)
(* cancels the session context, so that the wait of the hosting loop       *)
(* returns and 'Informer stopped' is logged; and in no state has the loop  *)
(* exited or the signal been raised while callbacks still fire.            *)
(***************************************************************************)
CancelWhenSyncedStopsCleanly ==
    /\ [](cmd = "controller" /\ signal = "synced" =>
            (ctxDone /\ (Ended => StoppedCleanly)))
    /\ [][Ended => (handled' = handled /\ ~inCallback')]_vars
    /\ [][(signal # "none" /\ signal' # "none") => handled' = handled]_vars

(***************************************************************************)
(* C20: within one informer session the callbacks handled for one          *)
(* deployment are in causal order: the first is an Add, an Update follows  *)
(* an Add or an Update, a Delete follows an Add or an Update, and after a  *)
(* Delete only an Add follows.  Nothing is said about the callbacks of     *)
(* different deployments.                                                  *)
(***************************************************************************)
CausalSteps ==
    {<<"none", "add">>, <<"add", "update">>, <<"add", "delete">>, <<"update", "delete">>,
     <<"delete", "add">>}

CausalOrder ==
    [][\A i \in DOMAIN WatchedNames :
            handled'[i] # handled[i] => <<handled[i], handled'[i]>> \in CausalSteps]_vars

\* One deployment was added, then deleted and is queued to be added again,
\* while an update of the other one has been handled.
CausalOrderWitness ==
    /\ cmd = "controller" /\ pc = "synced"
    /\ handled[1] = "delete"
    /\ handled[2] = "update"
    /\ \E k \in DOMAIN pending : pending[k].type = "add" /\ pending[k].name = WatchedNames[1]

(***************************************************************************)
(* C21: every Update callback is handled with an old and a new snapshot    *)
(* and logs exactly one 'Deployment updated' record that carries the old   *)
(* and the new ready and desired counts.  A resync delivery, in which old  *)
(* equals new, is handled the same way, raises no error and changes no     *)
(* program state: handling it again adds the log line again and nothing    *)
(* else.                                                                   *)
(***************************************************************************)
Delivered == pending[NextNotification(pending)]
Handling(type) ==
    /\ InSession /\ pending # <<>>
    /\ Len(pending') < Len(pending)
    /\ Delivered.type = type
CarriesCounts(rec, n) ==
    /\ rec.level = LevelName(InfoLevel)
    /\ <<"deployment", n.name>> \in rec.fields
    /\ <<"old_ready_replicas", n.old.ready>> \in rec.fields
    /\ <<"new_ready_replicas", n.new.ready>> \in rec.fields
    /\ <<"old_desired_replicas", n.old.replicas.v>> \in rec.fields
    /\ <<"new_desired_replicas", n.new.replicas.v>> \in rec.fields

Reported == cmd = "controller" /\ pc \in {"informer", "exited", "crashed"} /\ calls # <<>>
CallsOf(resource) == {i \in DOMAIN calls : calls[i].resource = resource}
FailedCallsOf(resource) == {i \in CallsOf(resource) : calls[i].err # NilErr}

FailedSectionOnlySkipped ==
    Reported =>
        /\ FailedCallsOf("deployments") \cup FailedCallsOf("events") # {} => pc = "informer"
        /\ FailedCallsOf("deployments") # {} =>
            /\ Logged("Failed to get deployments")
            /\ Logged("Fetching recent events")
            /\ CallsOf("events") # {}
            /\ FailedCallsOf("events") = {} => Logged("Events retrieved")
        /\ FailedCallsOf("events") # {} =>
            /\ Logged("Failed to get events")
            /\ FailedCallsOf("deployments") = {} => Logged("Deployment status retrieved")

(***************************************************************************)
(* C24: in informer mode the controller waits for the cache to sync before *)
(* it processes events: no add, update or delete notification is handled,  *)
(* that is logged or printed by a handler, before the initial cache sync   *)
(* has completed.                                                          *)
(***************************************************************************)
SomeHandled == inCallback \/ \E i \in DOMAIN WatchedNames : handled[i] # "none"

HandledOnlyAfterSync == (cmd = "controller" /\ SomeHandled) => hasSynced

(***************************************************************************)
(* C29: every delete notification the informer delivers, whether it        *)
(* carries the last known deployment or the tombstone of a delete the      *)
(* watch has missed, is handled by logging exactly one 'Deployment         *)
(* deleted' record, and the handler does not fault.                        *)
(***************************************************************************)
EveryDeleteLogged ==
    [][Handling("delete") =>
        /\ pc' = pc
        /\ Cardinality(Matching(stdout', "Deployment deleted")) = 1
        /\ \A i \in Matching(stdout', "Deployment deleted") :
            <<"deployment", Delivered.name>> \in stdout'[i].fields]_vars

(***************************************************************************)
(* Reading a state of the raw watch.                                       *)
(***************************************************************************)
LogRecords(out) == {i \in DOMAIN out : out[i].level # "print"}
ErrorRecords(out) == {i \in DOMAIN out : out[i].level = LevelName(ErrorLevel)}
Receiving == cmd = "controller" /\ pc = "watching" /\ watcher.ch # <<>>

(***************************************************************************)
(* C22: in raw watch mode a clean close of the event stream ends the loop  *)
(* in Terminated with no error-level record, whereas a read failure        *)
(* delivered on the stream, an error event in place of a deployment, ends  *)
(* the session in Failed with an error-level record logged, and is not     *)
(* retried.                                                                *)
(***************************************************************************)
RawWatchEndings ==
    /\ [](cmd = "controller" /\ pc = "returned" /\ watcher.state = "stopped"
            => ErrorRecords(stdout) = {})
    /\ [][(Receiving /\ Head(watcher.ch) = ErrorEvent) =>
            /\ pc' = "returned"
            /\ ErrorRecords(stdout') # {}
            /\ watcher'.opens = watcher.opens]_vars

(***************************************************************************)
(* C25: raw watch mode opens the change-event stream at most once in a     *)
(* session.  When the opening fails it logs an error and returns without   *)
(* having handled an event; once the stream has ended no stream is opened  *)
(* and no event is handled (no reconnection); while it watches, the events *)
(* are handled one at a time in the order of the stream, each received     *)
(* event with exactly one log record, duplicates included.                 *)
(***************************************************************************)
WatchOnceInOrder ==
    /\ [](cmd = "controller" => watcher.opens <= 1)
    /\ [](cmd = "controller" /\ watcher.state = "failed" =>
            /\ pc = "returned"
            /\ ErrorRecords(stdout) # {}
            /\ ~Logged("Deployment event detected"))
    /\ [][watcher.state \in {"failed", "stopped"} =>
            (watcher' = watcher /\ stdout' = stdout)]_vars
    /\ [][Receiving =>
            LET e == Head(watcher.ch)
            IN  /\ watcher'.ch = Tail(watcher.ch)
                /\ Cardinality(LogRecords(stdout')) = 1
                /\ \A i \in LogRecords(stdout') :
                    /\ stdout'[i].message = "Deployment event detected"
                    /\ <<"event_type", e.type>> \in stdout'[i].fields
                    /\ <<"deployment_name", e.object.name>> \in stdout'[i].fields]_vars

(***************************************************************************)
(* C27: in every successful response of GET /api/v1/status the healthy     *)
(* and the unhealthy deployments add up to deployments.total, the counts   *)
(* of the pod phase histogram add up to pods.total and none of them is     *)
(* zero, and services.total is the number of services listed.              *)
(***************************************************************************)
StatusTotalsAgree ==
    (Served("GET", "/api/v1/status") /\ Succeeded) =>
        LET d == Envelope.data
            histogram == d.pods.status
        IN  /\ d.deployments.healthy + d.deployments.unhealthy = d.deployments.total
            /\ d.deployments.total = Len(calls[1].items)
            /\ SumOver(histogram, DOMAIN histogram) = d.pods.total
            /\ d.pods.total = Len(calls[2].items)
            /\ \A ph \in DOMAIN histogram : histogram[ph] > 0
            /\ d.services.total = Len(calls[3].items)

\* A status with a healthy and an unhealthy deployment, pods of one phase
\* only and a service.
StatusTotalsAgreeWitness ==
    /\ Served("GET", "/api/v1/status") /\ Succeeded
    /\ Envelope.data.deployments.healthy > 0
    /\ Envelope.data.deployments.unhealthy > 0
    /\ Envelope.data.pods.total > 1
    /\ DOMAIN Envelope.data.pods.status = {"Running"}
    /\ Envelope.data.services.total > 0

(***************************************************************************)
(* C28: Reconcile of a request has exactly three outcomes.  When the       *)
(* deployment is not found it returns no error and no requeue; when the    *)
(* Get fails for another reason it returns that error and no requeue       *)
(* interval; when the deployment is found it returns no error and a        *)
(* requeue after 30 seconds.  Hence a deployment that keeps existing is    *)
(* reconciled again and again, a deleted one is not requeued by Reconcile, *)
(* and Reconcile changes no state.                                         *)
(***************************************************************************)
Reconciled == cmd = "manager" /\ pc = "reconciled"
NoRequeueNoError == result.requeueAfter = 0 /\ result.err = NilErr
ErrorNoRequeue(err) == result.requeueAfter = 0 /\ result.err = err
RequeueNoError == result.requeueAfter = 30 /\ result.err = NilErr

Answered(w) == cmd = "server" /\ workers[w].pc = "responded"
ItemsKey(path) == IF path = "/api/v1/deployments" THEN "deployments" ELSE "events"
OwnResponse(w) ==
    LET r == workers[w].req
        read == workers[w].read
        body == workers[w].resp.body.obj
    IN  /\ read.namespace = NamespaceOf(r.namespace)
        /\ read.resource = ItemsKey(r.path)
        /\ body.success = (read.err = NilErr)
        /\ body.success =>
            /\ body.data.namespace = NamespaceOf(r.namespace)
            /\ body.data.count = Len(read.items)
            /\ Len(EntriesOf(body.data[ItemsKey(r.path)])) = Len(read.items)
            /\ r.path = "/api/v1/deployments" =>
                \A i \in DOMAIN read.items :
                    LET e == EntriesOf(body.data.deployments)[i]
                    IN  /\ e.name = read.items[i].name
                        /\ e.namespace = NamespaceOf(r.namespace)
                        /\ e.ready_replicas = read.items[i].ready

HandlersShareNothing ==
    /\ [](\A w \in WorkerIds : Answered(w) => OwnResponse(w))
    /\ [][(cmd = "server" /\ pc = "serving") =>
            (nsFlag' = nsFlag /\ kubeconfig' = kubeconfig /\ inCluster' = inCluster)]_vars

\* Two requests for different namespaces are in flight: one has been
\* answered with a listing while the other one has read the query and has
\* not listed yet.
HandlersShareNothingWitness ==
    /\ Answered("worker-1")
    /\ workers["worker-1"].resp.body.obj.success
    /\ workers["worker-1"].resp.body.obj.data.count = 2
    /\ workers["worker-2"].pc = "parsed"
    /\ workers["worker-2"].req.namespace # workers["worker-1"].req.namespace
    /\ workers["worker-2"].req.path = workers["worker-1"].req.path

(***************************************************************************)
(* Every mode of the program: the server, both controller commands (the    *)
(* one-shot report, the raw watch and the informer) and the manager.       *)
(***************************************************************************)
InitAll ==
    \/ Init /\ nsFlag = "default"
    \/ InitWatch
    \/ InitManager

NextAll ==
    \/ Next
    \/ NextInformer
    \/ NextWatch
    \/ NextManager

SpecAll == InitAll /\ [][NextAll]_vars

(***************************************************************************)
(* C26: no mode of the program (one-shot status, raw watch, informer       *)
(* watch, HTTP handlers, Reconcile) issues a create, update, patch or      *)
(* delete against the cluster: every cluster call is a get, a list or a    *)
(* watch, and the steps that make cluster calls leave the cluster as it    *)
(* is, in every order of the program's operations.                         *)
(***************************************************************************)
ReadVerbs == {"get", "list", "watch"}

====
